---------------------------- MODULE Spec2Model ----------------------------
(***************************************************************************)
(* A model of WinReg::RegKey (include/dplnk/subsystems/windows.h): the     *)
(* move-only owner of a registry key handle, the multi-string codec and    *)
(* the typed value setters and getters, over an abstract registry store.   *)
(*                                                                         *)
(*   Spec       handle lifecycle: construction, create/open, move, swap,   *)
(*              close, detach, attach, connectRegistry, loadKey, ~RegKey   *)
(*   CodecSpec  Details::buildMultiString / Details::parseMultiString      *)
(*   ValueSpec  typed setter followed by the typed getter on one value     *)
(***************************************************************************)
EXTENDS Integers, Sequences, FiniteSets, TLC

VARIABLES
    m_hKey,      \* RegKey object -> the wrapped HKEY (RegKey::m_hKey)
    alive,       \* the RegKey objects that are constructed and not destroyed
    nextRef,     \* the next handle value the store hands out
    isOpen,      \* store: the non-predefined handles that are open
    closeCount,  \* store: handle -> number of RegCloseKey calls made on it
    callerRefs,  \* open handles owned by the caller (handed out by detach())
    keys,        \* store: the keys that exist, as <<root, path>>
    last,        \* the last RegKey operation: arguments, store calls, status
    c_pc,        \* codec run: "input", "built", "parsed"
    c_data,      \* codec run: the input list of strings
    c_multi,     \* codec run: the buffer built by buildMultiString
    c_result,    \* codec run: what parseMultiString returned
    v_pc,        \* value run: "input", "set", "got"
    v_in,        \* value run: the kind and the value handed to the setter
    v_store,     \* value run: the registry value stored under the name
    v_out,       \* value run: what the getter returned
    g_pc,        \* getter run: "idle", "size", "fill", "done"
    g_call,      \* getter run: the getter that was called, [kind, form]
    g_store,     \* getter run: the registry value stored under the name
    g_dataSize,  \* getter run: the local dataSize
    g_n,         \* getter run: the number of elements of the local buffer
    g_calls,     \* getter run: the RegGetValueW calls made, in order
    g_writes,    \* getter run: writes other processes made during the call
    g_result,    \* getter run: what the getter returned or threw
    s_pc,        \* setter run: "idle", "input", "done"
    s_length,    \* setter run: the size() / length() of the data, a size_t
    s_call,      \* setter run: the setter that was called, [kind, form]
    s_calls,     \* setter run: the RegSetValueExW calls made, [type, cbData]
    s_result,    \* setter run: how the setter ended
    k_pc,        \* key operation: "idle", "ready", "done"
    k_before,    \* key operation: the open key in the store before the call
    k_store,     \* key operation: the open key in the store
    k_call,      \* key operation: the method called, [op, form, name]
    k_calls,     \* key operation: the store primitives called, [fn, name]
    k_result,    \* key operation: how the method ended
    p_pc,        \* existence probe: "idle", "ready", "done"
    p_store,     \* existence probe: the open key in the store
    p_call,      \* existence probe: the method called, [op, form, name]
    p_calls,     \* existence probe: the store calls made, [fn, status]
    p_result,    \* existence probe: how the method ended
    e_pc,        \* enumeration: "idle", "query", "item", "done"
    e_call,      \* enumeration: the method called, [kind, form]
    e_store,     \* enumeration: the sub-keys or values of the open key, in store order
    e_count,     \* enumeration: the local subKeyCount / valueCount
    e_maxLength, \* enumeration: the local maxSubKeyNameLength / maxValueNameLength
    e_list,      \* enumeration: the local subKeys / valueInfo
    e_calls,     \* enumeration: the store calls made, in order
    e_writes,    \* enumeration: changes other processes made during the call
    e_seen,      \* enumeration: the entries the key had at the moments of the call
    e_result,    \* enumeration: what the method returned or threw
    d_pc,        \* dplnk: "idle", "run" or "done"
    d_build,     \* dplnk: the translation unit and platform the program was built from
    d_call,      \* dplnk: the arguments, [path, options]
    d_ip,        \* dplnk: the next statement of the body
    d_before,    \* dplnk: the store when dplnk was called
    d_store,     \* dplnk: the keys of the store and their values
    d_objs,      \* dplnk: the RegKey locals constructed, in order, and their m_hKey
    d_isOpen,    \* dplnk: the handles the store has open
    d_calls,     \* dplnk: the store calls made, in order
    d_result     \* dplnk: how the call ended

hvars == <<m_hKey, alive, nextRef, isOpen, closeCount, callerRefs, keys, last>>
cvars == <<c_pc, c_data, c_multi, c_result>>
vvars == <<v_pc, v_in, v_store, v_out>>
gvars == <<g_pc, g_call, g_store, g_dataSize, g_n, g_calls, g_writes, g_result>>
svars == <<s_pc, s_length, s_call, s_calls, s_result>>
kvars == <<k_pc, k_before, k_store, k_call, k_calls, k_result>>
pvars == <<p_pc, p_store, p_call, p_calls, p_result>>
evars == <<e_pc, e_call, e_store, e_count, e_maxLength, e_list, e_calls, e_writes, e_seen, e_result>>
dvars == <<d_pc, d_build, d_call, d_ip, d_before, d_store, d_objs, d_isOpen, d_calls, d_result>>
vars == <<hvars, cvars, vvars, gvars, svars, kvars, pvars, evars, dvars>>

-----------------------------------------------------------------------------
(* Bounds *)

MaxObjs == 2
MaxRefs == 2
MaxStrLen == 2
MaxList == 2
MaxBytes == 2
MaxBuf == 4
MaxWrites == 2
MaxDelta == 3
MaxEntries == 2

-----------------------------------------------------------------------------
(* Handle values.  The HKEY_* roots are opaque values of <Windows.h>; the    *)
(* model only needs them distinct from each other and from nullptr.         *)

nullptr == 0
HKEY_CURRENT_USER == -1
HKEY_LOCAL_MACHINE == -2
HKEY_CLASSES_ROOT == -3
HKEY_CURRENT_CONFIG == -4
HKEY_CURRENT_USER_LOCAL_SETTINGS == -5
HKEY_PERFORMANCE_DATA == -6
HKEY_PERFORMANCE_NLSTEXT == -7
HKEY_PERFORMANCE_TEXT == -8
HKEY_USERS == -9

Objs == 1..MaxObjs
Refs == 1..MaxRefs

\* The roots RegKey::isPredefined() names.
PredefinedRoots ==
    { HKEY_CURRENT_USER, HKEY_LOCAL_MACHINE, HKEY_CLASSES_ROOT,
      HKEY_CURRENT_CONFIG, HKEY_CURRENT_USER_LOCAL_SETTINGS,
      HKEY_PERFORMANCE_DATA, HKEY_PERFORMANCE_NLSTEXT,
      HKEY_PERFORMANCE_TEXT, HKEY_USERS }

\* The root callers pass (dplnk.cpp passes HKEY_CURRENT_USER): as raw handle
\* to RegKey(HKEY) and attach(), and as parent of create/open and
\* hKeyPredefined of connectRegistry.
InputRoots == { HKEY_CURRENT_USER }
ParentRoots == { HKEY_CURRENT_USER }
SubKeys == { "A" }

ERROR_SUCCESS == "ERROR_SUCCESS"
ERROR_FILE_NOT_FOUND == "ERROR_FILE_NOT_FOUND"
ERROR_ACCESS_DENIED == "ERROR_ACCESS_DENIED"
ERROR_INVALID_HANDLE == "ERROR_INVALID_HANDLE"
ERROR_BAD_NETPATH == "ERROR_BAD_NETPATH"

ERROR_INVALID_DATA == "ERROR_INVALID_DATA"
ERROR_MORE_DATA == "ERROR_MORE_DATA"
ERROR_UNSUPPORTED_TYPE == "ERROR_UNSUPPORTED_TYPE"

NoKey == <<>>

\* How a call that yields a value ends: it returns the value, or it throws
\* a RegException carrying the status.
Return(kind, value) ==
    [ kind |-> kind, thrown |-> FALSE, status |-> ERROR_SUCCESS, value |-> value ]
Throw(kind, status) ==
    [ kind |-> kind, thrown |-> TRUE, status |-> status, value |-> <<>> ]
NoResult == [ kind |-> "none", thrown |-> FALSE, status |-> "none", value |-> <<>> ]

\* No getter has been called.
NoCall == [ kind |-> "none", form |-> "none" ]

\* A registry value: its type and its data bytes; NoValue when the name has
\* no value.
NoValue == [ present |-> FALSE, type |-> "REG_NONE", data |-> <<>> ]

-----------------------------------------------------------------------------
(* The part of the state a RegKey member function reads and writes, passed  *)
(* through the function's statements in order.  calls is the sequence of    *)
(* store primitives the running operation has issued so far.                *)

World == [ m_hKey |-> m_hKey, isOpen |-> isOpen, closeCount |-> closeCount,
           keys |-> keys, nextRef |-> nextRef, calls |-> <<>> ]

Call(fn, h, status, out) == [ fn |-> fn, h |-> h, status |-> status, out |-> out ]

\* ::RegCloseKey(h)
RegCloseKey(w, h) ==
    [ w EXCEPT !.isOpen = @ \ {h},
               !.closeCount[h] = IF @ < 2 THEN @ + 1 ELSE @,
               !.calls = Append(@, Call("RegCloseKey", h, ERROR_SUCCESS, nullptr)) ]

isValid(h) == h # nullptr

isPredefined_missingRoot(h) ==
    \/ h = HKEY_LOCAL_MACHINE
    \/ h = HKEY_CLASSES_ROOT
    \/ h = HKEY_CURRENT_CONFIG
    \/ h = HKEY_CURRENT_USER_LOCAL_SETTINGS
    \/ h = HKEY_PERFORMANCE_DATA
    \/ h = HKEY_PERFORMANCE_NLSTEXT
    \/ h = HKEY_PERFORMANCE_TEXT
    \/ h = HKEY_USERS

isPredefined(h) ==
    \/ h = HKEY_CURRENT_USER
    \/ h = HKEY_LOCAL_MACHINE
    \/ h = HKEY_CLASSES_ROOT
    \/ h = HKEY_CURRENT_CONFIG
    \/ h = HKEY_CURRENT_USER_LOCAL_SETTINGS
    \/ h = HKEY_PERFORMANCE_DATA
    \/ h = HKEY_PERFORMANCE_NLSTEXT
    \/ h = HKEY_PERFORMANCE_TEXT
    \/ h = HKEY_USERS

close_keepsHandle(w, o) ==
    IF isValid(w.m_hKey[o]) /\ ~isPredefined(w.m_hKey[o])
    THEN RegCloseKey(w, w.m_hKey[o])
    ELSE w

close_alwaysReleases(w, o) ==
    IF isValid(w.m_hKey[o])
    THEN [ RegCloseKey(w, w.m_hKey[o]) EXCEPT !.m_hKey[o] = nullptr ]
    ELSE w

\* RegKey::close()
close(w, o) ==
    IF isValid(w.m_hKey[o])
    THEN LET w1 == IF ~isPredefined(w.m_hKey[o])
                   THEN RegCloseKey(w, w.m_hKey[o])
                   ELSE w
         IN  [ w1 EXCEPT !.m_hKey[o] = nullptr ]
    ELSE w


-----------------------------------------------------------------------------
(* Store primitives.  Each yields the set of outcomes the store may give:   *)
(* the status, the handle written to the out parameter, and the store       *)
(* after the call.  A new handle is one the store has never handed out.     *)

Outcome(status, hKey, w) == [ status |-> status, hKey |-> hKey, w |-> w ]

Logged(w, fn, h, status, out) ==
    [ w EXCEPT !.calls = Append(@, Call(fn, h, status, out)) ]

NewHandle(w, fn, h) ==
    [ Logged(w, fn, h, ERROR_SUCCESS, w.nextRef)
        EXCEPT !.isOpen = @ \cup {w.nextRef}, !.nextRef = @ + 1 ]

\* ::RegCreateKeyExW(hKeyParent, subKey, ..., &hKey, disposition): opens the
\* key, creating it when it does not exist.
RegCreateKeyExW(w, hKeyParent, subKey) ==
    { Outcome(ERROR_ACCESS_DENIED, nullptr,
              Logged(w, "RegCreateKeyExW", hKeyParent, ERROR_ACCESS_DENIED, nullptr)) }
    \cup
    { Outcome(ERROR_SUCCESS, w.nextRef,
              [ NewHandle(w, "RegCreateKeyExW", hKeyParent)
                  EXCEPT !.keys = @ \cup {<<hKeyParent, subKey>>} ])
        : x \in IF w.nextRef <= MaxRefs THEN {0} ELSE {} }

\* ::RegOpenKeyExW(hKeyParent, subKey, ..., &hKey): opens an existing key.
RegOpenKeyExW(w, hKeyParent, subKey) ==
    IF <<hKeyParent, subKey>> \notin w.keys
    THEN { Outcome(ERROR_FILE_NOT_FOUND, nullptr,
                   Logged(w, "RegOpenKeyExW", hKeyParent, ERROR_FILE_NOT_FOUND, nullptr)) }
    ELSE { Outcome(ERROR_ACCESS_DENIED, nullptr,
                   Logged(w, "RegOpenKeyExW", hKeyParent, ERROR_ACCESS_DENIED, nullptr)) }
         \cup
         { Outcome(ERROR_SUCCESS, w.nextRef, NewHandle(w, "RegOpenKeyExW", hKeyParent))
             : x \in IF w.nextRef <= MaxRefs THEN {0} ELSE {} }

\* ::RegConnectRegistryW(machineName, hKeyPredefined, &hKeyResult)
RegConnectRegistryW(w, hKeyPredefined) ==
    { Outcome(ERROR_BAD_NETPATH, nullptr,
              Logged(w, "RegConnectRegistryW", hKeyPredefined, ERROR_BAD_NETPATH, nullptr)) }
    \cup
    { Outcome(ERROR_SUCCESS, w.nextRef, NewHandle(w, "RegConnectRegistryW", hKeyPredefined))
        : x \in IF w.nextRef <= MaxRefs THEN {0} ELSE {} }

\* ::RegLoadKeyW(hKey, subKey, filename): hKey must be HKEY_USERS or
\* HKEY_LOCAL_MACHINE (or a handle from RegConnectRegistry).
RegLoadKeyW(w, hKey) ==
    IF hKey \in { HKEY_USERS, HKEY_LOCAL_MACHINE }
    THEN { Outcome(s, nullptr, Logged(w, "RegLoadKeyW", hKey, s, nullptr))
             : s \in { ERROR_SUCCESS, ERROR_ACCESS_DENIED } }
    ELSE { Outcome(ERROR_INVALID_HANDLE, nullptr,
                   Logged(w, "RegLoadKeyW", hKey, ERROR_INVALID_HANDLE, nullptr)) }

-----------------------------------------------------------------------------
(* RegKey member functions: each maps the state before the call to the set  *)
(* of results [status, thrown, w] the call may end in.                      *)

Result(status, thrown, w) == [ status |-> status, thrown |-> thrown, w |-> w ]

\* What create/open/tryCreate/tryOpen do with the store's answer: on
\* failure report it, on success close the old key and own the new one.
TakeOwnership(o, r, throws) ==
    IF r.status # ERROR_SUCCESS
    THEN Result(r.status, throws, r.w)
    ELSE Result(ERROR_SUCCESS, FALSE, [ close(r.w, o) EXCEPT !.m_hKey[o] = r.hKey ])

create_closesFirst(w, o, hKeyParent, subKey) ==
    { IF r.status # ERROR_SUCCESS
      THEN Result(r.status, TRUE, r.w)
      ELSE Result(ERROR_SUCCESS, FALSE, [ r.w EXCEPT !.m_hKey[o] = r.hKey ])
        : r \in RegCreateKeyExW(close(w, o), hKeyParent, subKey) }

\* RegKey::create(hKeyParent, subKey, desiredAccess, ...)
create(w, o, hKeyParent, subKey) ==
    { TakeOwnership(o, r, TRUE) : r \in RegCreateKeyExW(w, hKeyParent, subKey) }

\* RegKey::open(hKeyParent, subKey, desiredAccess)
open(w, o, hKeyParent, subKey) ==
    { TakeOwnership(o, r, TRUE) : r \in RegOpenKeyExW(w, hKeyParent, subKey) }

\* RegKey::tryCreate(hKeyParent, subKey, desiredAccess, ...)
tryCreate(w, o, hKeyParent, subKey) ==
    { TakeOwnership(o, r, FALSE) : r \in RegCreateKeyExW(w, hKeyParent, subKey) }

\* A tryOpen that closes the held key before it asks the store.
tryOpen_closesFirst(w, o, hKeyParent, subKey) ==
    { IF r.status # ERROR_SUCCESS
      THEN Result(r.status, FALSE, r.w)
      ELSE Result(ERROR_SUCCESS, FALSE, [ r.w EXCEPT !.m_hKey[o] = r.hKey ])
        : r \in RegOpenKeyExW(close(w, o), hKeyParent, subKey) }

\* RegKey::tryOpen(hKeyParent, subKey, desiredAccess)
tryOpen(w, o, hKeyParent, subKey) ==
    { TakeOwnership(o, r, FALSE) : r \in RegOpenKeyExW(w, hKeyParent, subKey) }

moveConstruct_copies(w, dst, src) ==
    [ w EXCEPT !.m_hKey[dst] = w.m_hKey[src] ]

\* RegKey::RegKey(RegKey&& other)
moveConstruct(w, dst, src) ==
    [ w EXCEPT !.m_hKey[dst] = w.m_hKey[src], !.m_hKey[src] = nullptr ]

\* RegKey::operator=(RegKey&& other)
moveAssign(w, dst, src) ==
    IF dst # src /\ w.m_hKey[dst] # w.m_hKey[src]
    THEN [ close(w, dst) EXCEPT !.m_hKey[dst] = w.m_hKey[src],
                                !.m_hKey[src] = nullptr ]
    ELSE w

\* RegKey::detach()
detach(w, o) == [ w EXCEPT !.m_hKey[o] = nullptr ]

attach_noSelfCheck(w, o, hKey) ==
    [ close(w, o) EXCEPT !.m_hKey[o] = hKey ]

\* RegKey::attach(hKey)
attach(w, o, hKey) ==
    IF w.m_hKey[o] # hKey
    THEN [ close(w, o) EXCEPT !.m_hKey[o] = hKey ]
    ELSE w

\* RegKey::swapWith(other)
swapWith(w, a, b) ==
    [ w EXCEPT !.m_hKey[a] = w.m_hKey[b], !.m_hKey[b] = w.m_hKey[a] ]

ConnectResult(o, r, throws) ==
    IF r.status # ERROR_SUCCESS
    THEN Result(r.status, throws, r.w)
    ELSE Result(ERROR_SUCCESS, FALSE, [ r.w EXCEPT !.m_hKey[o] = r.hKey ])

\* A connectRegistry that closes the held key only when the store succeeded.
connectRegistry_closesOnSuccess(w, o, hKeyPredefined) ==
    { TakeOwnership(o, r, TRUE) : r \in RegConnectRegistryW(w, hKeyPredefined) }

\* RegKey::connectRegistry(machineName, hKeyPredefined)
connectRegistry(w, o, hKeyPredefined) ==
    { ConnectResult(o, r, TRUE) : r \in RegConnectRegistryW(close(w, o), hKeyPredefined) }

\* RegKey::tryConnectRegistry(machineName, hKeyPredefined)
tryConnectRegistry(w, o, hKeyPredefined) ==
    { ConnectResult(o, r, FALSE) : r \in RegConnectRegistryW(close(w, o), hKeyPredefined) }

\* RegKey::loadKey(subKey, filename): the store is called with m_hKey as it
\* is after close().
loadKey(w, o) ==
    LET w1 == close(w, o)
    IN  { Result(r.status, r.status # ERROR_SUCCESS, r.w)
            : r \in RegLoadKeyW(w1, w1.m_hKey[o]) }

\* RegKey::tryLoadKey(subKey, filename)
tryLoadKey(w, o) ==
    LET w1 == close(w, o)
    IN  { Result(r.status, FALSE, r.w) : r \in RegLoadKeyW(w1, w1.m_hKey[o]) }

-----------------------------------------------------------------------------
(* Handle lifecycle: one action per constructor, member function and the    *)
(* destructor.                                                              *)

Op(op, self, other, oprev, key) ==
    [ op |-> op, self |-> self, other |-> other,
      prev |-> IF self \in alive THEN m_hKey[self] ELSE nullptr,
      oprev |-> oprev, key |-> key,
      absent |-> key # NoKey /\ key \notin keys,
      status |-> ERROR_SUCCESS, thrown |-> FALSE, calls |-> <<>> ]

\* The state after a member function that ended in result r.
Commit(r, l) ==
    /\ m_hKey' = r.w.m_hKey
    /\ isOpen' = r.w.isOpen
    /\ closeCount' = r.w.closeCount
    /\ keys' = r.w.keys
    /\ nextRef' = r.w.nextRef
    /\ last' = [ l EXCEPT !.status = r.status, !.thrown = r.thrown,
                          !.calls = r.w.calls ]
    /\ UNCHANGED <<cvars, vvars, gvars, svars, kvars, pvars, evars, dvars>>

Done(w) == Result(ERROR_SUCCESS, FALSE, w)

\* The raw handles a caller can pass: none, a predefined root, or an open
\* handle it owns itself (no live RegKey holds it).
RawInputs == {nullptr} \cup InputRoots \cup callerRefs

\* Program start: no RegKey has been constructed, the store has handed out
\* no handle.
HandleInit ==
    /\ m_hKey = [ o \in Objs |-> nullptr ]
    /\ alive = {}
    /\ nextRef = 1
    /\ isOpen = {}
    /\ closeCount = [ h \in PredefinedRoots \cup Refs |-> 0 ]
    /\ callerRefs = {}
    /\ keys = {}
    /\ last = Op("none", 0, 0, nullptr, NoKey)

\* No codec call and no value access is in progress.
CodecIdle == c_pc = "idle" /\ c_data = <<>> /\ c_multi = <<>> /\ c_result = NoResult
ValueIdle == v_pc = "idle" /\ v_in = NoResult /\ v_store = NoValue /\ v_out = NoResult

GetterIdle ==
    /\ g_pc = "idle" /\ g_call = NoCall /\ g_store = NoValue /\ g_dataSize = 0
    /\ g_n = 0 /\ g_calls = <<>> /\ g_writes = 0 /\ g_result = NoResult

SizeIdle ==
    /\ s_pc = "idle" /\ s_length = <<0, 0, 0, 0>> /\ s_call = NoCall
    /\ s_calls = <<>> /\ s_result = NoResult

\* A key without values and child keys
NoContent ==
    [ values |-> {}, children |-> {}, deep |-> {}, copied |-> {},
      flushed |-> FALSE, saved |-> FALSE, reflection |-> FALSE ]

NoKeyCall == [ op |-> "none", form |-> "none", name |-> "" ]

KeyIdle ==
    /\ k_pc = "idle" /\ k_before = NoContent /\ k_store = NoContent
    /\ k_call = NoKeyCall /\ k_calls = <<>> /\ k_result = NoResult

\* No bool has been returned.
NoAnswer == [ thrown |-> FALSE, status |-> "none", has |-> FALSE ]

ProbeIdle ==
    /\ p_pc = "idle" /\ p_store = NoContent /\ p_call = NoKeyCall
    /\ p_calls = <<>> /\ p_result = NoAnswer

EnumIdle ==
    /\ e_pc = "idle" /\ e_call = NoCall /\ e_store = <<>> /\ e_count = 0
    /\ e_maxLength = 0 /\ e_list = <<>> /\ e_calls = <<>> /\ e_writes = 0
    /\ e_seen = {} /\ e_result = NoResult

\* A store without keys
NoStore == [ key \in {} |-> {} ]

DplnkIdle ==
    /\ d_pc = "idle" /\ d_build = "none" /\ d_call = NoCall /\ d_ip = 0
    /\ d_before = NoStore /\ d_store = NoStore /\ d_objs = <<>> /\ d_isOpen = {}
    /\ d_calls = <<>> /\ d_result = NoResult

Init == HandleInit /\ CodecIdle /\ ValueIdle /\ GetterIdle /\ SizeIdle /\ KeyIdle /\ ProbeIdle /\ EnumIdle /\ DplnkIdle

\* RegKey() noexcept = default
DefaultConstruct(o) ==
    /\ o \notin alive
    /\ alive' = alive \cup {o}
    /\ Commit(Done(World), Op("RegKey", o, 0, nullptr, NoKey))
    /\ UNCHANGED callerRefs

\* explicit RegKey(HKEY hKey)
RawConstruct(o, hKey) ==
    /\ o \notin alive
    /\ hKey \in RawInputs
    /\ alive' = alive \cup {o}
    /\ callerRefs' = callerRefs \ {hKey}
    /\ Commit(Done([ World EXCEPT !.m_hKey[o] = hKey ]),
              Op("RegKey(HKEY)", o, 0, hKey, NoKey))

\* RegKey(HKEY hKeyParent, const std::wstring& subKey): create() on the new
\* object; when create() throws there is no object.
CreateConstruct(o, hKeyParent, subKey) ==
    /\ o \notin alive
    /\ \E r \in create(World, o, hKeyParent, subKey) :
         /\ alive' = IF r.thrown THEN alive ELSE alive \cup {o}
         /\ Commit(r, Op("RegKey(HKEY,subKey)", o, 0, hKeyParent, <<hKeyParent, subKey>>))
    /\ UNCHANGED callerRefs

Create(o, hKeyParent, subKey) ==
    /\ o \in alive
    /\ \E r \in create(World, o, hKeyParent, subKey) :
         Commit(r, Op("create", o, 0, hKeyParent, <<hKeyParent, subKey>>))
    /\ UNCHANGED <<alive, callerRefs>>

Open(o, hKeyParent, subKey) ==
    /\ o \in alive
    /\ \E r \in open(World, o, hKeyParent, subKey) :
         Commit(r, Op("open", o, 0, hKeyParent, <<hKeyParent, subKey>>))
    /\ UNCHANGED <<alive, callerRefs>>

TryCreate(o, hKeyParent, subKey) ==
    /\ o \in alive
    /\ \E r \in tryCreate(World, o, hKeyParent, subKey) :
         Commit(r, Op("tryCreate", o, 0, hKeyParent, <<hKeyParent, subKey>>))
    /\ UNCHANGED <<alive, callerRefs>>

TryOpen(o, hKeyParent, subKey) ==
    /\ o \in alive
    /\ \E r \in tryOpen(World, o, hKeyParent, subKey) :
         Commit(r, Op("tryOpen", o, 0, hKeyParent, <<hKeyParent, subKey>>))
    /\ UNCHANGED <<alive, callerRefs>>

MoveConstruct(dst, src) ==
    /\ dst \notin alive
    /\ src \in alive
    /\ alive' = alive \cup {dst}
    /\ Commit(Done(moveConstruct(World, dst, src)),
              Op("RegKey(RegKey&&)", dst, src, m_hKey[src], NoKey))
    /\ UNCHANGED callerRefs

MoveAssign(dst, src) ==
    /\ dst \in alive
    /\ src \in alive
    /\ Commit(Done(moveAssign(World, dst, src)),
              Op("operator=", dst, src, m_hKey[src], NoKey))
    /\ UNCHANGED <<alive, callerRefs>>

SwapWith(a, b) ==
    /\ a \in alive
    /\ b \in alive
    /\ Commit(Done(swapWith(World, a, b)), Op("swapWith", a, b, m_hKey[b], NoKey))
    /\ UNCHANGED <<alive, callerRefs>>

Close(o) ==
    /\ o \in alive
    /\ Commit(Done(close(World, o)), Op("close", o, 0, nullptr, NoKey))
    /\ UNCHANGED <<alive, callerRefs>>

\* detach(): the caller now owns what the RegKey held.
Detach(o) ==
    /\ o \in alive
    /\ callerRefs' = callerRefs \cup ({m_hKey[o]} \cap isOpen)
    /\ Commit(Done(detach(World, o)), Op("detach", o, 0, nullptr, NoKey))
    /\ UNCHANGED alive

\* attach(hKey): hKey is a raw input, or the handle the RegKey holds itself
\* (attach(get())).
Attach(o, hKey) ==
    /\ o \in alive
    /\ hKey \in RawInputs \cup {m_hKey[o]}
    /\ callerRefs' = callerRefs \ {hKey}
    /\ Commit(Done(attach(World, o, hKey)), Op("attach", o, 0, hKey, NoKey))
    /\ UNCHANGED alive

ConnectRegistry(o, hKeyPredefined) ==
    /\ o \in alive
    /\ \E r \in connectRegistry(World, o, hKeyPredefined) :
         Commit(r, Op("connectRegistry", o, 0, hKeyPredefined, NoKey))
    /\ UNCHANGED <<alive, callerRefs>>

TryConnectRegistry(o, hKeyPredefined) ==
    /\ o \in alive
    /\ \E r \in tryConnectRegistry(World, o, hKeyPredefined) :
         Commit(r, Op("tryConnectRegistry", o, 0, hKeyPredefined, NoKey))
    /\ UNCHANGED <<alive, callerRefs>>

LoadKey(o) ==
    /\ o \in alive
    /\ \E r \in loadKey(World, o) : Commit(r, Op("loadKey", o, 0, nullptr, NoKey))
    /\ UNCHANGED <<alive, callerRefs>>

TryLoadKey(o) ==
    /\ o \in alive
    /\ \E r \in tryLoadKey(World, o) : Commit(r, Op("tryLoadKey", o, 0, nullptr, NoKey))
    /\ UNCHANGED <<alive, callerRefs>>

\* ~RegKey(): close(), and the object is gone.
Destroy(o) ==
    /\ o \in alive
    /\ alive' = alive \ {o}
    /\ Commit(Done(close(World, o)), Op("~RegKey", o, 0, nullptr, NoKey))
    /\ UNCHANGED callerRefs

Next ==
    \/ \E o \in Objs : DefaultConstruct(o)
    \/ \E o \in Objs, h \in {nullptr} \cup InputRoots \cup Refs : RawConstruct(o, h)
    \/ \E o \in Objs, p \in ParentRoots, k \in SubKeys : CreateConstruct(o, p, k)
    \/ \E o \in Objs, p \in ParentRoots, k \in SubKeys : Create(o, p, k)
    \/ \E o \in Objs, p \in ParentRoots, k \in SubKeys : Open(o, p, k)
    \/ \E o \in Objs, p \in ParentRoots, k \in SubKeys : TryCreate(o, p, k)
    \/ \E o \in Objs, p \in ParentRoots, k \in SubKeys : TryOpen(o, p, k)
    \/ \E dst \in Objs, src \in Objs : MoveConstruct(dst, src)
    \/ \E dst \in Objs, src \in Objs : MoveAssign(dst, src)
    \/ \E a \in Objs, b \in Objs : SwapWith(a, b)
    \/ \E o \in Objs : Close(o)
    \/ \E o \in Objs : Detach(o)
    \/ \E o \in Objs, h \in {nullptr} \cup InputRoots \cup Refs : Attach(o, h)
    \/ \E o \in Objs, p \in ParentRoots : ConnectRegistry(o, p)
    \/ \E o \in Objs, p \in ParentRoots : TryConnectRegistry(o, p)
    \/ \E o \in Objs : LoadKey(o)
    \/ \E o \in Objs : TryLoadKey(o)
    \/ \E o \in Objs : Destroy(o)

Spec == Init /\ [][Next]_vars

-----------------------------------------------------------------------------
(* Claims about the handle lifecycle (checked under Spec).                  *)

CreateOrOpen == { "create", "open", "tryCreate", "tryOpen" }

\* C1: in every reachable state, no handle that is not a predefined root
\* (and not nullptr) is held by two live RegKey objects.
C1_ExclusiveOwnership ==
    \A a \in alive, b \in alive :
        (a # b /\ m_hKey[a] = m_hKey[b]) => m_hKey[a] \notin Refs

\* Two live RegKeys each hold a store handle, after one was moved or swapped.
C1_Witness ==
    /\ last.op \in { "swapWith", "operator=", "RegKey(RegKey&&)", "attach" }
    /\ \E a \in alive, b \in alive :
         a # b /\ m_hKey[a] \in Refs /\ m_hKey[b] \in Refs

\* C2: no handle is passed to RegCloseKey twice; a handle is closed in the
\* store exactly when it was released once, and no live RegKey holds a
\* released handle; close() or ~RegKey() on an empty RegKey calls nothing;
\* a handle the caller got from detach() (and has not handed back) has not
\* been released; and once every RegKey is destroyed, every handle the
\* store handed out was released exactly once or is in the caller's hands.
C2_ReleasedExactlyOnce ==
    /\ \A r \in Refs : closeCount[r] <= 1
    /\ \A o \in alive : m_hKey[o] \in Refs => m_hKey[o] \in isOpen
    /\ \A r \in Refs : closeCount[r] = 1 <=> (r < nextRef /\ r \notin isOpen)
    /\ \A r \in callerRefs : closeCount[r] = 0 /\ r \in isOpen
    /\ (last.op \in { "close", "~RegKey" } /\ last.prev = nullptr) => last.calls = <<>>
    /\ alive = {} =>
         \A r \in 1..(nextRef - 1) :
            IF r \in callerRefs THEN closeCount[r] = 0 ELSE closeCount[r] = 1

\* Every RegKey is destroyed; one handle was released, one was detached.
C2_Witness ==
    /\ alive = {}
    /\ last.op = "~RegKey"
    /\ callerRefs # {}
    /\ \E r \in Refs : closeCount[r] = 1

\* C3: RegCloseKey is never called on a root isPredefined() recognises.
C3_PredefinedNeverReleased ==
    /\ \A h \in PredefinedRoots : closeCount[h] = 0
    /\ \A i \in 1..Len(last.calls) :
         last.calls[i].fn = "RegCloseKey" => last.calls[i].h \notin PredefinedRoots

\* A RegKey that held a predefined root was destroyed or given another handle.
C3_Witness ==
    /\ last.op \in { "~RegKey", "attach", "operator=", "create", "connectRegistry" }
    /\ last.prev \in PredefinedRoots
    /\ last.self \notin alive \/ m_hKey[last.self] # last.prev

\* C4 as stated: after close() on a RegKey holding a predefined root the
\* RegKey still holds that root and isValid() is true.
C4_CloseKeepsPredefined ==
    (last.op = "close" /\ last.prev \in PredefinedRoots) =>
        /\ m_hKey[last.self] = last.prev
        /\ isValid(m_hKey[last.self])

\* C4 as amended: close() on a RegKey holding a predefined root makes no
\* store call (the root is not released) and leaves the RegKey empty.
C4_ClosePredefinedDetaches ==
    (last.op = "close" /\ last.prev \in PredefinedRoots) =>
        /\ last.calls = <<>>
        /\ closeCount[last.prev] = 0
        /\ m_hKey[last.self] = nullptr
        /\ ~isValid(m_hKey[last.self])

\* close() has run on a RegKey that held a predefined root.
C4_Witness ==
    last.op = "close" /\ last.prev \in PredefinedRoots /\ last.self \in alive

\* C5: move construction and move assignment between distinct RegKeys leave
\* the source empty and the destination holding what the source held, so
\* that close() of the source calls nothing; self-move-assignment changes
\* nothing and calls nothing.
C5_MoveEmptiesSource ==
    /\ (last.op \in { "RegKey(RegKey&&)", "operator=" } /\ last.self # last.other) =>
          /\ m_hKey[last.other] = nullptr
          /\ ~isValid(m_hKey[last.other])
          /\ m_hKey[last.self] = last.oprev
          /\ close(World, last.other).calls = <<>>
    /\ (last.op = "operator=" /\ last.self = last.other) =>
          /\ m_hKey[last.self] = last.prev
          /\ last.calls = <<>>

\* C6: a successful create/open/tryCreate/tryOpen on a RegKey holding store
\* handle r makes exactly two store calls, first the create/open that
\* succeeded and then RegCloseKey(r), and the RegKey holds the new handle.
C6_ReleaseAfterSuccess ==
    (last.op \in CreateOrOpen /\ last.status = ERROR_SUCCESS /\ last.prev \in Refs) =>
        /\ Len(last.calls) = 2
        /\ last.calls[1].fn \in { "RegCreateKeyExW", "RegOpenKeyExW" }
        /\ last.calls[1].status = ERROR_SUCCESS
        /\ last.calls[2] = Call("RegCloseKey", last.prev, ERROR_SUCCESS, nullptr)
        /\ closeCount[last.prev] = 1
        /\ last.calls[1].out # last.prev
        /\ m_hKey[last.self] = last.calls[1].out
        /\ m_hKey[last.self] \in isOpen

\* Each of the four has succeeded on a RegKey that held a store handle.
C6_Witness ==
    /\ last.op \in CreateOrOpen
    /\ last.status = ERROR_SUCCESS
    /\ last.prev \in Refs
    /\ last.prev \notin isOpen

\* C7: open (like create), called for a key that does not exist and not
\* refused access, succeeds, the key exists afterwards and the RegKey holds
\* the handle the store returned.
C7_OpenCreatesAbsentKey ==
    (last.op \in { "open", "create" } /\ last.absent
        /\ last.status # ERROR_ACCESS_DENIED) =>
        /\ last.status = ERROR_SUCCESS
        /\ last.key \in keys
        /\ isValid(m_hKey[last.self])
        /\ m_hKey[last.self] = last.calls[1].out

\* C8: attach(h) with h the handle already held calls nothing and keeps it;
\* otherwise the RegKey holds h afterwards (nullptr when h is nullptr) and
\* the store handle held before was released by exactly one RegCloseKey.
C8_Attach ==
    last.op = "attach" =>
        /\ last.oprev = last.prev =>
              last.calls = <<>> /\ m_hKey[last.self] = last.prev
        /\ last.oprev # last.prev =>
              /\ m_hKey[last.self] = last.oprev
              /\ last.prev \in Refs =>
                    /\ last.calls = << Call("RegCloseKey", last.prev, ERROR_SUCCESS, nullptr) >>
                    /\ closeCount[last.prev] = 1
              /\ last.prev \notin Refs => last.calls = <<>>
        /\ last.oprev = nullptr => ~isValid(m_hKey[last.self])

\* attach() of a caller-owned handle replaced a held store handle.
C8_Witness ==
    /\ last.op = "attach"
    /\ last.prev \in Refs
    /\ last.oprev \in Refs
    /\ last.oprev # last.prev
    /\ closeCount[last.prev] = 1

\* C21: loadKey and tryLoadKey release the store handle the RegKey holds
\* before they call the store, call RegLoadKeyW with the handle the RegKey
\* held when the call began, and after a success the RegKey is valid.
C21_LoadKeyUsesHeldParent ==
    last.op \in { "loadKey", "tryLoadKey" } =>
        LET n == Len(last.calls)
        IN  /\ n >= 1
            /\ last.calls[n].fn = "RegLoadKeyW"
            /\ last.calls[n].h = last.prev
            /\ last.prev \in Refs =>
                  /\ n = 2
                  /\ last.calls[1] = Call("RegCloseKey", last.prev, ERROR_SUCCESS, nullptr)
            /\ last.status = ERROR_SUCCESS => isValid(m_hKey[last.self])

\* C22: connectRegistry and tryConnectRegistry release a store handle the
\* RegKey holds by exactly one RegCloseKey before the one call of
\* RegConnectRegistryW, and release nothing else; after a success the
\* RegKey holds the open handle the store returned; after a failure the
\* RegKey is not valid and the status of the store is thrown by
\* connectRegistry and returned by tryConnectRegistry.
C22_ConnectRegistry ==
    last.op \in { "connectRegistry", "tryConnectRegistry" } =>
        LET n == Len(last.calls)
            connect == last.calls[n]
        IN  /\ n = IF last.prev \in Refs THEN 2 ELSE 1
            /\ last.prev \in Refs =>
                  /\ last.calls[1] = Call("RegCloseKey", last.prev, ERROR_SUCCESS, nullptr)
                  /\ closeCount[last.prev] = 1
                  /\ last.prev \notin isOpen
            /\ connect.fn = "RegConnectRegistryW"
            /\ connect.h = last.oprev
            /\ last.status = connect.status
            /\ last.status = ERROR_SUCCESS =>
                  /\ ~last.thrown
                  /\ m_hKey[last.self] = connect.out
                  /\ m_hKey[last.self] \in isOpen
            /\ last.status # ERROR_SUCCESS =>
                  /\ ~isValid(m_hKey[last.self])
                  /\ last.thrown = (last.op = "connectRegistry")

\* connectRegistry failed on a RegKey that held a store handle.
C22_Witness ==
    /\ last.op = "connectRegistry"
    /\ last.prev \in Refs
    /\ last.status # ERROR_SUCCESS
    /\ last.thrown
    /\ m_hKey[last.self] = nullptr
    /\ closeCount[last.prev] = 1

\* C27: after a failed create, open, tryCreate or tryOpen the RegKey holds
\* the handle it held before, a store handle it held is still open and
\* was never released, and the failed store call is the only call made.
C27_FailureKeepsHandle ==
    (last.op \in CreateOrOpen /\ last.status # ERROR_SUCCESS) =>
        /\ m_hKey[last.self] = last.prev
        /\ Len(last.calls) = 1
        /\ last.calls[1].fn \in { "RegCreateKeyExW", "RegOpenKeyExW" }
        /\ last.calls[1].status = last.status
        /\ last.thrown = (last.op \in { "create", "open" })
        /\ last.prev \in Refs => last.prev \in isOpen /\ closeCount[last.prev] = 0

\* tryOpen failed on a RegKey that held a store handle.
C27_Witness ==
    /\ last.op = "tryOpen"
    /\ last.status # ERROR_SUCCESS
    /\ last.prev \in Refs
    /\ m_hKey[last.self] = last.prev
    /\ last.prev \in isOpen

-----------------------------------------------------------------------------
(* Multi-string codec (namespace Details).  A wchar_t is a number, L'\0'    *)
(* is NUL; a std::wstring and a std::vector<wchar_t> are sequences of them. *)

NUL == 0
Chars == { 97, 9786 }

Strings == UNION { [ 1..n -> Chars ] : n \in 0..MaxStrLen }
StringLists == UNION { [ 1..n -> Strings ] : n \in 0..MaxList }

\* The insertion loop of buildMultiString: each string's contents, when it
\* has any, followed by one terminator.
RECURSIVE insertStrings(_, _)
insertStrings(multiString, data) ==
    IF data = <<>>
    THEN multiString
    ELSE insertStrings(
            (IF Head(data) # <<>> THEN multiString \o Head(data) ELSE multiString)
                \o <<NUL>>,
            Tail(data))

\* buildMultiString without the final terminator.
buildMultiString_noFinalTerminator(data) ==
    IF data = <<>>
    THEN <<NUL, NUL>>
    ELSE insertStrings(<<>>, data)

\* Details::buildMultiString(data)
buildMultiString(data) ==
    IF data = <<>>
    THEN <<NUL, NUL>>
    ELSE insertStrings(<<>>, data) \o <<NUL>>

\* isDoubleNullTerminated that looks at the last unit only.
isDoubleNullTerminated_lastUnitOnly(data) ==
    IF Len(data) < 2
    THEN FALSE
    ELSE data[Len(data)] = NUL

\* Details::isDoubleNullTerminated(data); n is the index of the last unit,
\* counted from 0 as in the code.
isDoubleNullTerminated(data) ==
    IF Len(data) < 2
    THEN FALSE
    ELSE LET n == Len(data) - 1
         IN  data[n + 1] = NUL /\ data[n] = NUL

\* wcslen(data.data() + ptr): the number of units before the first NUL.
RECURSIVE wcslen(_, _)
wcslen(data, ptr) ==
    IF data[ptr + 1] = NUL THEN 0 ELSE 1 + wcslen(data, ptr + 1)

\* The scan loop of parseMultiString: ptr is the offset of the current
\* string, ptrEnd the offset of the last unit.
RECURSIVE parseLoop(_, _, _)
parseLoop(data, ptr, result) ==
    LET ptrEnd == Len(data) - 1
    IN  IF ~(ptr < ptrEnd)
        THEN result
        ELSE LET len == wcslen(data, ptr)
             IN  parseLoop(data, ptr + len + 1,
                    Append(result,
                           IF len > 0 THEN SubSeq(data, ptr + 1, ptr + len)
                                      ELSE <<>>))

\* Details::parseMultiString(data)
parseMultiString(data) ==
    IF ~isDoubleNullTerminated(data)
    THEN Throw("MultiString", ERROR_INVALID_DATA)
    ELSE Return("MultiString", parseLoop(data, 0, <<>>))

\* The buffers parseMultiString can be handed: any sequence of units.
Buffers == UNION { [ 1..n -> {NUL} \cup Chars ] : n \in 0..MaxBuf }

\* A codec run: a list of strings is encoded, and the buffer is decoded; or
\* a buffer that comes from elsewhere (the store) is decoded.
CodecInit ==
    /\ HandleInit /\ ValueIdle /\ GetterIdle /\ SizeIdle /\ KeyIdle /\ ProbeIdle /\ EnumIdle /\ DplnkIdle
    /\ c_result = NoResult
    /\ \/ c_pc = "input" /\ c_data \in StringLists /\ c_multi = <<>>
       \/ c_pc = "received" /\ c_data = <<>> /\ c_multi \in Buffers

BuildMultiString ==
    /\ c_pc = "input"
    /\ c_multi' = buildMultiString(c_data)
    /\ c_pc' = "built"
    /\ UNCHANGED <<c_data, c_result, hvars, vvars, gvars, svars, kvars, pvars, evars, dvars>>

ParseMultiString ==
    /\ c_pc \in { "built", "received" }
    /\ c_result' = parseMultiString(c_multi)
    /\ c_pc' = IF c_pc = "built" THEN "parsed" ELSE "decoded"
    /\ UNCHANGED <<c_data, c_multi, hvars, vvars, gvars, svars, kvars, pvars, evars, dvars>>

CodecNext == BuildMultiString \/ ParseMultiString

CodecSpec == CodecInit /\ [][CodecNext]_vars

\* C9: for every list of terminator-free strings, the empty list and lists
\* with empty strings at any position included,
\* parseMultiString(buildMultiString(list)) returns list.
C9_RoundTrip ==
    c_pc = "parsed" =>
        /\ ~c_result.thrown
        /\ c_result.value = c_data

\* C11: parseMultiString throws ERROR_INVALID_DATA and yields no entries
\* for every buffer shorter than two units or whose last two units are not
\* both terminators, and does not fail for a buffer whose last two units
\* are both terminators.
C11_MalformedDecode ==
    c_pc \in { "parsed", "decoded" } =>
        LET n == Len(c_multi)
            wellFormed == n >= 2 /\ c_multi[n] = NUL /\ c_multi[n - 1] = NUL
        IN  /\ ~wellFormed =>
                  /\ c_result.thrown
                  /\ c_result.status = ERROR_INVALID_DATA
                  /\ c_result.value = <<>>
            /\ wellFormed =>
                  /\ ~c_result.thrown
                  /\ c_result.status = ERROR_SUCCESS

\* A buffer of two units or more that ends in one terminator, not two, was
\* refused.
C11_Witness ==
    /\ c_pc = "decoded"
    /\ Len(c_multi) >= 2
    /\ c_multi[Len(c_multi)] = NUL
    /\ c_multi[Len(c_multi) - 1] # NUL
    /\ c_result.thrown

\* The offset in the output at which entry i of the list starts: the sum
\* of (length + 1) over the entries before it.
RECURSIVE EntryOffset(_, _)
EntryOffset(data, i) ==
    IF i = 1 THEN 0 ELSE EntryOffset(data, i - 1) + Len(data[i - 1]) + 1

\* C12: buildMultiString returns two terminators for the empty list; for a
\* non-empty list each entry in order followed by one terminator, and one
\* final terminator: the length is the sum of (entry length + 1) plus 1,
\* and every output ends in two terminators.
C12_BuildLayout ==
    c_pc \in { "built", "parsed" } =>
        LET n == Len(c_data)
            size == Len(c_multi)
        IN  /\ c_data = <<>> => c_multi = <<NUL, NUL>>
            /\ c_data # <<>> =>
                  /\ size = EntryOffset(c_data, n + 1) + 1
                  /\ \A i \in 1..n :
                        LET at == EntryOffset(c_data, i)
                        IN  /\ \A k \in 1..Len(c_data[i]) :
                                  c_multi[at + k] = c_data[i][k]
                            /\ c_multi[at + Len(c_data[i]) + 1] = NUL
            /\ size >= 2 /\ c_multi[size] = NUL /\ c_multi[size - 1] = NUL

\* A list with an empty entry before a non-empty one was encoded.
C12_Witness ==
    /\ c_pc = "built"
    /\ Len(c_data) = 2
    /\ c_data[1] = <<>>
    /\ c_data[2] # <<>>
    /\ Len(c_multi) = Len(c_data[2]) + 3

-----------------------------------------------------------------------------
(* Typed values.  The store keeps a value as a type and a sequence of       *)
(* bytes; the setters hand it the bytes of the object in memory, and the    *)
(* getters read the bytes back into an object of the same type.             *)

sizeofWchar == 2
sizeofDword == 4
sizeofQword == 8

Bytes == { 0, 255 }
Binaries == UNION { [ 1..n -> Bytes ] : n \in 0..MaxBytes }
DwordValues == { 0, 1, 258, 16909060 }
QwordValues == { 0, 513, 2147483647 }

\* reinterpret_cast<const BYTE*>(&data): the size bytes of an integer,
\* least significant first.
RECURSIVE BytesOfInt(_, _)
BytesOfInt(data, size) ==
    IF size = 0
    THEN <<>>
    ELSE << data % 256 >> \o BytesOfInt(data \div 256, size - 1)

\* The integer whose bytes in memory are the given ones.
RECURSIVE IntOfBytes(_)
IntOfBytes(bytes) ==
    IF bytes = <<>> THEN 0 ELSE Head(bytes) + 256 * IntOfBytes(Tail(bytes))

\* reinterpret_cast<const BYTE*>(data.c_str()): the bytes of a wchar_t
\* sequence, two per unit, least significant first.
RECURSIVE BytesOfUnits(_)
BytesOfUnits(units) ==
    IF units = <<>>
    THEN <<>>
    ELSE << Head(units) % 256, Head(units) \div 256 >> \o BytesOfUnits(Tail(units))

\* The wchar_t buffer of n units whose leading bytes are the given ones;
\* resize() has filled the rest with NUL.
UnitsOfBytes(bytes, n) ==
    LET byte(i) == IF i <= Len(bytes) THEN bytes[i] ELSE 0
    IN  [ i \in 1..n |-> byte(2 * i - 1) + 256 * byte(2 * i) ]

\* std::wstring::resize(n) / std::vector::resize(n)
resize(data, n) ==
    IF n <= Len(data)
    THEN SubSeq(data, 1, n)
    ELSE data \o [ i \in 1..(n - Len(data)) |-> NUL ]

\* A size_t of the 64-bit build is written as four 16-bit digits, least
\* significant first, so that sizes beyond 2^32 - 1 can be told from their
\* 32-bit truncation.
Digit == 65536

\* The size_t of a small number
size_t(n) == <<n % Digit, n \div Digit, 0, 0>>

\* a * k + c in size_t arithmetic (modulo 2^64), for a digit k and a carry c
mulAdd(a, k, c) ==
    LET d1 == a[1] * k + c
        d2 == a[2] * k + d1 \div Digit
        d3 == a[3] * k + d2 \div Digit
        d4 == a[4] * k + d3 \div Digit
    IN  <<d1 % Digit, d2 % Digit, d3 % Digit, d4 % Digit>>

\* a > b for two size_t
greater(a, b) ==
    \E i \in 1..4 : a[i] > b[i] /\ \A j \in (i + 1)..4 : a[j] = b[j]

\* static_cast<size_t>((std::numeric_limits<DWORD>::max)())
kMaxDwordValue == <<Digit - 1, Digit - 1, 0, 0>>

\* Details::sizeToDwordCastIsSafe(size), _WIN64: size <= 0xFFFFFFFF
sizeToDwordCastIsSafe(size) == ~greater(size, kMaxDwordValue)

\* static_cast<DWORD>(size): the low 32 bits
castToDword(size) == <<size[1], size[2]>>

\* A cast that never reports an overflow.
safeCastSizeToDword_unchecked(size) ==
    [ overflow |-> FALSE, dword |-> castToDword(size) ]

\* Details::safeCastSizeToDword(size), _WIN64: the DWORD, or the
\* std::overflow_error it throws
safeCastSizeToDword(size) ==
    IF ~sizeToDwordCastIsSafe(size)
    THEN [ overflow |-> TRUE, dword |-> <<0, 0>> ]
    ELSE [ overflow |-> FALSE, dword |-> castToDword(size) ]

REG_DWORD == "REG_DWORD"
REG_QWORD == "REG_QWORD"
REG_SZ == "REG_SZ"
REG_EXPAND_SZ == "REG_EXPAND_SZ"
REG_MULTI_SZ == "REG_MULTI_SZ"
REG_BINARY == "REG_BINARY"

\* dwFlags of RegGetValueW, as the set of flags that are set
RRF_RT_REG_DWORD == { "RRF_RT_REG_DWORD" }
RRF_RT_REG_QWORD == { "RRF_RT_REG_QWORD" }
RRF_RT_REG_SZ == { "RRF_RT_REG_SZ" }
RRF_RT_REG_EXPAND_SZ == { "RRF_RT_REG_EXPAND_SZ" }
RRF_RT_REG_MULTI_SZ == { "RRF_RT_REG_MULTI_SZ" }
RRF_RT_REG_BINARY == { "RRF_RT_REG_BINARY" }
RRF_NOEXPAND == { "RRF_NOEXPAND" }

\* The RRF_RT_* flag that admits each value type
TypeFlag ==
    [ t \in { REG_DWORD, REG_QWORD, REG_SZ, REG_EXPAND_SZ, REG_MULTI_SZ, REG_BINARY } |->
        CASE t = REG_DWORD -> RRF_RT_REG_DWORD
          [] t = REG_QWORD -> RRF_RT_REG_QWORD
          [] t = REG_SZ -> RRF_RT_REG_SZ
          [] t = REG_EXPAND_SZ -> RRF_RT_REG_EXPAND_SZ
          [] t = REG_MULTI_SZ -> RRF_RT_REG_MULTI_SZ
          [] t = REG_BINARY -> RRF_RT_REG_BINARY ]

\* ::RegSetValueExW(m_hKey, valueName, 0, type, lpData, cbData): the value
\* becomes the first cbData bytes at lpData with the given type, unless the
\* store refuses the write.
RegSetValueExW(store, type, lpData, cbData) ==
    { [ status |-> ERROR_ACCESS_DENIED, store |-> store ],
      [ status |-> ERROR_SUCCESS,
        store |-> [ present |-> TRUE, type |-> type,
                    data |-> SubSeq(lpData, 1, cbData) ] ] }

\* The data RegGetValueW hands out: string data that lacks its terminator
\* (for a multi-string, its two terminators) gets it appended.
Terminated(type, data) ==
    LET n == Len(data)
        endsInNul == n >= 2 /\ data[n] = 0 /\ data[n - 1] = 0 /\ n % 2 = 0
        endsInTwoNul == endsInNul /\ n >= 4 /\ data[n - 2] = 0 /\ data[n - 3] = 0
    IN  CASE type \in { REG_SZ, REG_EXPAND_SZ } ->
                 IF endsInNul THEN data ELSE data \o <<0, 0>>
          [] type = REG_MULTI_SZ ->
                 IF endsInTwoNul THEN data
                 ELSE IF endsInNul THEN data \o <<0, 0>>
                 ELSE data \o <<0, 0, 0, 0>>
          [] OTHER -> data

\* ::RegGetValueW(m_hKey, nullptr, valueName, dwFlags, nullptr, pvData,
\* &dataSize).  pvData tells whether an output buffer is passed, dataSize
\* is its size in bytes.  Yields the status, the size written back to
\* dataSize and the bytes written to the buffer.
RegGetValueW(store, dwFlags, pvData, dataSize) ==
    LET restricted == { t \in DOMAIN TypeFlag : TypeFlag[t] \subseteq dwFlags }
        data == Terminated(store.type, store.data)
    IN  IF ~store.present
        THEN [ status |-> ERROR_FILE_NOT_FOUND, dataSize |-> dataSize, data |-> <<>> ]
        ELSE IF store.type \notin restricted
        THEN [ status |-> ERROR_UNSUPPORTED_TYPE, dataSize |-> dataSize, data |-> <<>> ]
        ELSE IF ~pvData
        THEN [ status |-> ERROR_SUCCESS, dataSize |-> Len(data), data |-> <<>> ]
        ELSE IF dataSize < Len(data)
        THEN [ status |-> ERROR_MORE_DATA, dataSize |-> Len(data), data |-> <<>> ]
        ELSE [ status |-> ERROR_SUCCESS, dataSize |-> Len(data), data |-> data ]

\* How a setter ends: the store's answer r, thrown as a RegException when
\* it is not ERROR_SUCCESS.
SetResult(kind, data, r) ==
    [ kind |-> kind, value |-> data, thrown |-> r.status # ERROR_SUCCESS,
      status |-> r.status, store |-> r.store ]

\* Details::safeCastSizeToDword(size) threw std::overflow_error: the setter
\* ends before it calls the store.
Overflow(kind, data, store) ==
    [ kind |-> kind, value |-> data, thrown |-> TRUE,
      status |-> "std::overflow_error", store |-> store ]

\* RegKey::setDwordValue(valueName, data)
setDwordValue(store, data) ==
    { SetResult("Dword", data, r) :
        r \in RegSetValueExW(store, REG_DWORD, BytesOfInt(data, sizeofDword), sizeofDword) }

\* RegKey::setQwordValue(valueName, data)
setQwordValue(store, data) ==
    { SetResult("Qword", data, r) :
        r \in RegSetValueExW(store, REG_QWORD, BytesOfInt(data, sizeofQword), sizeofQword) }

\* RegKey::setStringValue(valueName, data); data.c_str() is the text
\* followed by its terminator.
setStringValue(store, data) ==
    LET dataSize == (Len(data) + 1) * sizeofWchar
    IN  IF ~sizeToDwordCastIsSafe(size_t(dataSize))
        THEN { Overflow("String", data, store) }
        ELSE { SetResult("String", data, r) :
                 r \in RegSetValueExW(store, REG_SZ,
                                      BytesOfUnits(data \o <<NUL>>), dataSize) }

\* RegKey::setExpandStringValue(valueName, data)
setExpandStringValue(store, data) ==
    LET dataSize == (Len(data) + 1) * sizeofWchar
    IN  IF ~sizeToDwordCastIsSafe(size_t(dataSize))
        THEN { Overflow("ExpandString", data, store) }
        ELSE { SetResult("ExpandString", data, r) :
                 r \in RegSetValueExW(store, REG_EXPAND_SZ,
                                      BytesOfUnits(data \o <<NUL>>), dataSize) }

\* RegKey::setMultiStringValue(valueName, data)
setMultiStringValue(store, data) ==
    LET multiString == buildMultiString(data)
        dataSize == Len(multiString) * sizeofWchar
    IN  IF ~sizeToDwordCastIsSafe(size_t(dataSize))
        THEN { Overflow("MultiString", data, store) }
        ELSE { SetResult("MultiString", data, r) :
                 r \in RegSetValueExW(store, REG_MULTI_SZ,
                                      BytesOfUnits(multiString), dataSize) }

\* RegKey::setBinaryValue(valueName, const std::vector<BYTE>& data)
setBinaryValue(store, data) ==
    LET dataSize == Len(data)
    IN  IF ~sizeToDwordCastIsSafe(size_t(dataSize))
        THEN { Overflow("Binary", data, store) }
        ELSE { SetResult("Binary", data, r) :
                 r \in RegSetValueExW(store, REG_BINARY, data, dataSize) }

\* RegKey::getDwordValue(valueName): one call with a buffer of sizeof(DWORD)
\* bytes that holds 0.
getDwordValue(store) ==
    LET r == RegGetValueW(store, RRF_RT_REG_DWORD, TRUE, sizeofDword)
    IN  IF r.status # ERROR_SUCCESS
        THEN Throw("Dword", r.status)
        ELSE Return("Dword", IntOfBytes(r.data))

\* RegKey::getQwordValue(valueName)
getQwordValue(store) ==
    LET r == RegGetValueW(store, RRF_RT_REG_QWORD, TRUE, sizeofQword)
    IN  IF r.status # ERROR_SUCCESS
        THEN Throw("Qword", r.status)
        ELSE Return("Qword", IntOfBytes(r.data))

\* The while (errorCode == ERROR_MORE_DATA) loop of the variable-length
\* getters: ask for the size, resize the buffer to dataSize / unit elements,
\* ask for the data.  A failed size query throws; zeroReturns is the binary
\* getter's return on a size of 0.  Yields the status the loop ended with,
\* the dataSize and the bytes of the last store call, and the buffer's
\* length.
RECURSIVE sizeThenFill(_, _, _, _)
sizeThenFill(store, kFlags, unit, zeroReturns) ==
    LET size == RegGetValueW(store, kFlags, FALSE, 0)
        n == size.dataSize \div unit
        fill == RegGetValueW(store, kFlags, TRUE, size.dataSize)
    IN  IF size.status # ERROR_SUCCESS
        THEN [ status |-> size.status, dataSize |-> size.dataSize,
               data |-> <<>>, n |-> 0, returned |-> FALSE ]
        ELSE IF zeroReturns /\ size.dataSize = 0
        THEN [ status |-> ERROR_SUCCESS, dataSize |-> 0,
               data |-> <<>>, n |-> 0, returned |-> TRUE ]
        ELSE IF fill.status = ERROR_MORE_DATA
        THEN sizeThenFill(store, kFlags, unit, zeroReturns)
        ELSE [ status |-> fill.status, dataSize |-> fill.dataSize,
               data |-> fill.data, n |-> n, returned |-> FALSE ]

\* A string getter that keeps the terminator the store wrote.
StringResult_keepsTerminator(kind, r) ==
    IF r.status # ERROR_SUCCESS
    THEN Throw(kind, r.status)
    ELSE Return(kind, resize(UnitsOfBytes(r.data, r.n), r.dataSize \div sizeofWchar))

\* The text a string getter returns: the buffer without the terminator the
\* store wrote, result.resize((dataSize / sizeof(wchar_t)) - 1).
StringResult(kind, r) ==
    LET length == (r.dataSize \div sizeofWchar) - 1
    IN  IF r.status # ERROR_SUCCESS
        THEN Throw(kind, r.status)
        ELSE IF length < 0
        THEN Throw(kind, "std::length_error")
        ELSE Return(kind, resize(UnitsOfBytes(r.data, r.n), length))

\* RegKey::getStringValue(valueName)
getStringValue(store) ==
    StringResult("String", sizeThenFill(store, RRF_RT_REG_SZ, sizeofWchar, FALSE))

\* RegKey::getExpandStringValue(valueName, expandOption)
getExpandStringValue(store, expandOption) ==
    LET kFlags == IF expandOption = "DontExpand"
                  THEN RRF_RT_REG_EXPAND_SZ \cup RRF_NOEXPAND
                  ELSE RRF_RT_REG_EXPAND_SZ
    IN  StringResult("ExpandString", sizeThenFill(store, kFlags, sizeofWchar, FALSE))

\* RegKey::getMultiStringValue(valueName)
getMultiStringValue(store) ==
    LET r == sizeThenFill(store, RRF_RT_REG_MULTI_SZ, sizeofWchar, FALSE)
        multiString == resize(UnitsOfBytes(r.data, r.n), r.dataSize \div sizeofWchar)
    IN  IF r.status # ERROR_SUCCESS
        THEN Throw("MultiString", r.status)
        ELSE parseMultiString(multiString)

\* RegKey::getBinaryValue(valueName)
getBinaryValue(store) ==
    LET r == sizeThenFill(store, RRF_RT_REG_BINARY, 1, TRUE)
    IN  IF r.status # ERROR_SUCCESS
        THEN Throw("Binary", r.status)
        ELSE IF r.returned
        THEN Return("Binary", <<>>)
        ELSE Return("Binary", resize(resize(r.data, r.n), r.dataSize))

\* RegKey key{ HKEY_CURRENT_USER, L"A" } has succeeded: object 1 holds the
\* handle the store returned.
KeyOpened ==
    /\ callerRefs = {}
    /\ alive = {1}
    /\ \E r \in create([ m_hKey |-> [ o \in Objs |-> nullptr ], isOpen |-> {},
                         closeCount |-> [ h \in PredefinedRoots \cup Refs |-> 0 ],
                         keys |-> {}, nextRef |-> 1, calls |-> <<>> ],
                       1, HKEY_CURRENT_USER, "A") :
         /\ r.status = ERROR_SUCCESS
         /\ m_hKey = r.w.m_hKey
         /\ isOpen = r.w.isOpen
         /\ closeCount = r.w.closeCount
         /\ keys = r.w.keys
         /\ nextRef = r.w.nextRef
         /\ last = [ op |-> "RegKey(HKEY,subKey)", self |-> 1, other |-> 0,
                     prev |-> nullptr, oprev |-> HKEY_CURRENT_USER,
                     key |-> <<HKEY_CURRENT_USER, "A">>, absent |-> TRUE,
                     status |-> r.status, thrown |-> r.thrown, calls |-> r.w.calls ]

\* A value run: the key is open and the name has no value; one typed
\* setter is called, then one typed getter.
ValueInit ==
    /\ KeyOpened /\ CodecIdle /\ GetterIdle /\ SizeIdle /\ KeyIdle /\ ProbeIdle /\ EnumIdle /\ DplnkIdle
    /\ v_pc = "input" /\ v_in = NoResult /\ v_store = NoValue /\ v_out = NoResult

\* A setter can be called: the RegKey is valid (the setters and getters
\* assert it) and the run has not written the value yet.
CanSet == v_pc = "input" /\ isValid(m_hKey[1])

\* A getter can be called: the setter has returned or thrown.
CanGet == v_pc = "set" /\ isValid(m_hKey[1])

\* A setter has ended in result r.
Set(r) ==
    /\ v_in' = [ kind |-> r.kind, value |-> r.value, thrown |-> r.thrown,
                 status |-> r.status ]
    /\ v_store' = r.store
    /\ v_pc' = "set"
    /\ UNCHANGED <<v_out, hvars, cvars, gvars, svars, kvars, pvars, evars, dvars>>

\* A getter has ended in result r.
Get(r) ==
    /\ v_out' = r
    /\ v_pc' = "got"
    /\ UNCHANGED <<v_in, v_store, hvars, cvars, gvars, svars, kvars, pvars, evars, dvars>>

SetDwordValue(data) == CanSet /\ \E r \in setDwordValue(v_store, data) : Set(r)
SetQwordValue(data) == CanSet /\ \E r \in setQwordValue(v_store, data) : Set(r)
SetStringValue(data) == CanSet /\ \E r \in setStringValue(v_store, data) : Set(r)
SetExpandStringValue(data) == CanSet /\ \E r \in setExpandStringValue(v_store, data) : Set(r)
SetMultiStringValue(data) == CanSet /\ \E r \in setMultiStringValue(v_store, data) : Set(r)
SetBinaryValue(data) == CanSet /\ \E r \in setBinaryValue(v_store, data) : Set(r)

GetDwordValue == CanGet /\ \E r \in { getDwordValue(v_store) } : Get(r)
GetQwordValue == CanGet /\ \E r \in { getQwordValue(v_store) } : Get(r)
GetStringValue == CanGet /\ \E r \in { getStringValue(v_store) } : Get(r)
GetExpandStringValue == CanGet /\ \E r \in { getExpandStringValue(v_store, "DontExpand") } : Get(r)
GetMultiStringValue == CanGet /\ \E r \in { getMultiStringValue(v_store) } : Get(r)
GetBinaryValue == CanGet /\ \E r \in { getBinaryValue(v_store) } : Get(r)

ValueNext ==
    \/ \E data \in DwordValues : SetDwordValue(data)
    \/ \E data \in QwordValues : SetQwordValue(data)
    \/ \E data \in Strings : SetStringValue(data)
    \/ \E data \in Strings : SetExpandStringValue(data)
    \/ \E data \in StringLists : SetMultiStringValue(data)
    \/ \E data \in Binaries : SetBinaryValue(data)
    \/ GetDwordValue
    \/ GetQwordValue
    \/ GetStringValue
    \/ GetExpandStringValue
    \/ GetMultiStringValue
    \/ GetBinaryValue

ValueSpec == ValueInit /\ [][ValueNext]_vars

\* C10: the typed getter called after the matching typed setter succeeded,
\* on the same key and name with no write in between, returns the value
\* that was set: for DWORD, QWORD, string, expand string (not expanded),
\* multi-string and binary values, the empty string, the empty string list
\* and the empty byte sequence included.
C10_SetGetRoundTrip ==
    (v_pc = "got" /\ ~v_in.thrown /\ v_out.kind = v_in.kind) =>
        /\ ~v_out.thrown
        /\ v_out.value = v_in.value

-----------------------------------------------------------------------------
(* The variable-length getters, one store call at a time.  Between two      *)
(* calls of a getter another process may write or delete the value, and     *)
(* the store may refuse a call.                                             *)

GetterKinds == { "String", "ExpandString", "MultiString", "Binary" }
GetterForms == { "get", "tryGet" }

\* kFlags of each getter; the expand-string getters are called with
\* ExpandStringOption::DontExpand.
kFlagsOf(kind) ==
    CASE kind = "String" -> RRF_RT_REG_SZ
      [] kind = "ExpandString" -> RRF_RT_REG_EXPAND_SZ \cup RRF_NOEXPAND
      [] kind = "MultiString" -> RRF_RT_REG_MULTI_SZ
      [] kind = "Binary" -> RRF_RT_REG_BINARY

\* The element size of each getter's buffer: wchar_t, or BYTE.
unitOf(kind) == IF kind = "Binary" THEN 1 ELSE sizeofWchar

\* The data other processes store: nothing, text without and with its
\* terminator, one and two terminators, a terminated list.
StoredData ==
    { <<>>, <<97, 0>>, <<0, 0>>, <<97, 0, 0, 0>>, <<0, 0, 0, 0>>,
      <<97, 0, 0, 0, 0, 0>> }
StoredValues ==
    { NoValue } \cup
    { [ present |-> TRUE, type |-> t, data |-> d ] :
        t \in { REG_SZ, REG_EXPAND_SZ, REG_MULTI_SZ, REG_BINARY }, d \in StoredData }

\* What one RegGetValueW call may answer: what the value calls for, or a
\* refusal.
RegGetValueW_answers(store, dwFlags, pvData, dataSize) ==
    { RegGetValueW(store, dwFlags, pvData, dataSize),
      [ status |-> ERROR_ACCESS_DENIED, dataSize |-> dataSize, data |-> <<>> ] }

\* A try form's return of an error: makeRegExpectedWithError(errorCode)
Fail(kind, status) ==
    [ kind |-> kind, thrown |-> FALSE, status |-> status, value |-> <<>> ]

\* How a getter reports a failed store call: the throwing form throws a
\* RegException, the try form returns the status.
Failed(call, status) ==
    IF call.form = "get" THEN Throw(call.kind, status) ELSE Fail(call.kind, status)

\* What a getter returns after the loop ended with a successful fill call
\* that wrote data and set dataSize, into a buffer of n elements.
Filled_keepsBufferSize(call, dataSize, data, n) ==
    LET r == [ status |-> ERROR_SUCCESS, dataSize |-> n * sizeofWchar, data |-> data,
               n |-> n, returned |-> FALSE ]
    IN  CASE call.kind \in { "String", "ExpandString" } -> StringResult(call.kind, r)
          [] call.kind = "MultiString" -> parseMultiString(UnitsOfBytes(data, n))
          [] call.kind = "Binary" -> Return("Binary", resize(data, n))

Filled(call, dataSize, data, n) ==
    LET r == [ status |-> ERROR_SUCCESS, dataSize |-> dataSize, data |-> data,
               n |-> n, returned |-> FALSE ]
    IN  CASE call.kind \in { "String", "ExpandString" } -> StringResult(call.kind, r)
          [] call.kind = "MultiString" ->
                 parseMultiString(resize(UnitsOfBytes(data, n),
                                         dataSize \div sizeofWchar))
          [] call.kind = "Binary" ->
                 Return("Binary", resize(resize(data, n), dataSize))

GetterInit ==
    /\ KeyOpened /\ CodecIdle /\ ValueIdle /\ SizeIdle /\ KeyIdle /\ ProbeIdle /\ EnumIdle /\ DplnkIdle
    /\ g_pc = "idle" /\ g_call = NoCall /\ g_dataSize = 0 /\ g_n = 0
    /\ g_calls = <<>> /\ g_writes = 0 /\ g_result = NoResult
    /\ g_store \in StoredValues

\* A RegGetValueW call as recorded: whether it was the size query or the
\* fill call of its round, its status, the value that was stored when it
\* was made and the number of writes other processes had made by then.
StoreCallAt(stage, status) ==
    [ stage |-> stage, status |-> status, store |-> g_store, writes |-> g_writes ]

\* The recorded call c was the call of that stage and had that status.
Was(c, stage, status) == c.stage = stage /\ c.status = status

\* A getter is called: errorCode = ERROR_MORE_DATA, the loop is entered.
CallGetter(kind, form) ==
    /\ g_pc = "idle"
    /\ isValid(m_hKey[1])
    /\ g_call' = [ kind |-> kind, form |-> form ]
    /\ g_pc' = "size"
    /\ UNCHANGED <<g_store, g_dataSize, g_n, g_calls, g_writes, g_result,
                   hvars, cvars, vvars, svars, kvars, pvars, evars, dvars>>

\* A size query that is made again, up to three times, when it was refused.
SizeQuery_retriesRefusal ==
    /\ g_pc = "size"
    /\ \E r \in RegGetValueW_answers(g_store, kFlagsOf(g_call.kind), FALSE, g_dataSize) :
         /\ g_calls' = Append(g_calls, StoreCallAt("size", r.status))
         /\ g_dataSize' = r.dataSize
         /\ IF r.status = ERROR_ACCESS_DENIED /\ Len(g_calls) < 3
            THEN g_pc' = "size" /\ UNCHANGED <<g_n, g_result>>
            ELSE IF r.status # ERROR_SUCCESS
            THEN g_pc' = "done" /\ g_result' = Failed(g_call, r.status) /\ UNCHANGED g_n
            ELSE /\ g_n' = r.dataSize \div unitOf(g_call.kind)
                 /\ g_pc' = "fill"
                 /\ UNCHANGED g_result
    /\ UNCHANGED <<g_call, g_store, g_writes, hvars, cvars, vvars, svars, kvars, pvars, evars, dvars>>

\* The first call of a round: RegGetValueW without output buffer.  A
\* failure ends the getter; a binary getter returns on a size of 0;
\* otherwise the buffer is resized to dataSize / unit elements.
SizeQuery ==
    /\ g_pc = "size"
    /\ \E r \in RegGetValueW_answers(g_store, kFlagsOf(g_call.kind), FALSE, g_dataSize) :
         /\ g_calls' = Append(g_calls, StoreCallAt("size", r.status))
         /\ g_dataSize' = r.dataSize
         /\ IF r.status # ERROR_SUCCESS
            THEN /\ g_result' = Failed(g_call, r.status)
                 /\ g_pc' = "done"
                 /\ UNCHANGED g_n
            ELSE IF g_call.kind = "Binary" /\ r.dataSize = 0
            THEN /\ g_result' = Return("Binary", <<>>)
                 /\ g_pc' = "done"
                 /\ g_n' = 0
            ELSE /\ g_n' = r.dataSize \div unitOf(g_call.kind)
                 /\ g_pc' = "fill"
                 /\ UNCHANGED g_result
    /\ UNCHANGED <<g_call, g_store, g_writes, hvars, cvars, vvars, svars, kvars, pvars, evars, dvars>>

\* A fill call after which the loop goes round on every failure.
Fill_retriesEveryFailure ==
    /\ g_pc = "fill"
    /\ \E r \in RegGetValueW_answers(g_store, kFlagsOf(g_call.kind), TRUE, g_dataSize) :
         /\ g_calls' = Append(g_calls, StoreCallAt("fill", r.status))
         /\ g_dataSize' = r.dataSize
         /\ IF r.status # ERROR_SUCCESS
            THEN g_pc' = "size" /\ UNCHANGED g_result
            ELSE /\ g_pc' = "done"
                 /\ g_result' = Filled(g_call, r.dataSize, r.data, g_n)
    /\ UNCHANGED <<g_call, g_store, g_n, g_writes, hvars, cvars, vvars, svars, kvars, pvars, evars, dvars>>

\* The second call of a round: RegGetValueW with the buffer.  On
\* ERROR_MORE_DATA the loop goes round; any other failure ends the getter;
\* on success the getter returns what the buffer holds.
Fill ==
    /\ g_pc = "fill"
    /\ \E r \in RegGetValueW_answers(g_store, kFlagsOf(g_call.kind), TRUE, g_dataSize) :
         /\ g_calls' = Append(g_calls, StoreCallAt("fill", r.status))
         /\ g_dataSize' = r.dataSize
         /\ IF r.status = ERROR_MORE_DATA
            THEN g_pc' = "size" /\ UNCHANGED g_result
            ELSE /\ g_pc' = "done"
                 /\ g_result' = IF r.status # ERROR_SUCCESS
                                THEN Failed(g_call, r.status)
                                ELSE Filled(g_call, r.dataSize, r.data, g_n)
    /\ UNCHANGED <<g_call, g_store, g_n, g_writes, hvars, cvars, vvars, svars, kvars, pvars, evars, dvars>>

\* Another process writes or deletes the value while the getter runs.
Write(value) ==
    /\ g_pc \in { "size", "fill" }
    /\ g_writes < MaxWrites
    /\ value # g_store
    /\ g_store' = value
    /\ g_writes' = g_writes + 1
    /\ UNCHANGED <<g_pc, g_call, g_dataSize, g_n, g_calls, g_result,
                   hvars, cvars, vvars, svars, kvars, pvars, evars, dvars>>

GetterNext ==
    \/ \E kind \in GetterKinds, form \in GetterForms : CallGetter(kind, form)
    \/ SizeQuery
    \/ Fill
    \/ \E value \in StoredValues : Write(value)

GetterSpec == GetterInit /\ [][GetterNext]_vars

\* C13: in every variable-length getter a size query is the first call or
\* follows a fill call that returned ERROR_MORE_DATA, a fill call follows a
\* successful size query, and a failed size query or a fill call that
\* failed with another status is the last store call: the getter ends with
\* that status (thrown by the throwing form, returned by the try form).
C13_RoundOnlyOnMoreData ==
    \A i \in 1..Len(g_calls) :
        LET c == g_calls[i]
            ends == \/ c.stage = "size" /\ c.status # ERROR_SUCCESS
                    \/ c.stage = "fill" /\ c.status \notin { ERROR_SUCCESS, ERROR_MORE_DATA }
        IN  /\ c.stage = "size" =>
                  i = 1 \/ Was(g_calls[i - 1], "fill", ERROR_MORE_DATA)
            /\ c.stage = "fill" =>
                  i > 1 /\ Was(g_calls[i - 1], "size", ERROR_SUCCESS)
            /\ ends =>
                  /\ i = Len(g_calls)
                  /\ g_pc = "done"
                  /\ g_result.status = c.status
                  /\ g_result.value = <<>>
                  /\ g_result.thrown = (g_call.form = "get")

\* A getter went round once on ERROR_MORE_DATA and was then refused.
C13_Witness ==
    /\ g_pc = "done"
    /\ Len(g_calls) = 4
    /\ Was(g_calls[2], "fill", ERROR_MORE_DATA)
    /\ Was(g_calls[4], "fill", ERROR_ACCESS_DENIED)

\* C14: when a string or expand-string getter succeeds, s being the size
\* the last fill call reported, s / sizeof(wchar_t) - 1 is not negative,
\* the text returned has exactly that many characters, and it is the
\* stored text without its trailing terminator (the stored data itself
\* when it was stored without terminator, zero bytes of data included).
C14_TextLength ==
    (/\ g_pc = "done"
     /\ g_call.kind \in { "String", "ExpandString" }
     /\ Was(g_calls[Len(g_calls)], "fill", ERROR_SUCCESS)) =>
        LET s == g_dataSize
            d == g_store.data
            terminated == Len(d) >= 2 /\ d[Len(d)] = 0 /\ d[Len(d) - 1] = 0
        IN  /\ (s \div sizeofWchar) - 1 >= 0
            /\ ~g_result.thrown
            /\ g_result.status = ERROR_SUCCESS
            /\ Len(g_result.value) = (s \div sizeofWchar) - 1
            /\ BytesOfUnits(g_result.value) \o <<0, 0>> =
                   IF terminated THEN d ELSE d \o <<0, 0>>

\* A string getter succeeded on a value stored with zero bytes of data, and
\* one on a value of one character.
C14_Witness ==
    /\ g_pc = "done"
    /\ g_call.kind = "String"
    /\ g_store.present
    /\ g_store.data \in { <<>>, <<97, 0, 0, 0>> }
    /\ ~g_result.thrown
    /\ g_result.status = ERROR_SUCCESS
    /\ Len(g_result.value) = Len(g_store.data) \div 4

-----------------------------------------------------------------------------
(* The size a setter transmits.  The data of a setter is taken by its       *)
(* length only, so that lengths around 2^31 and 2^32 can be checked.        *)

SetterKinds == { "String", "ExpandString", "MultiString", "Binary" }
SetterForms == { "set", "trySet" }

\* The REG_* type each setter writes
TypeOf(kind) ==
    CASE kind = "String" -> REG_SZ
      [] kind = "ExpandString" -> REG_EXPAND_SZ
      [] kind = "MultiString" -> REG_MULTI_SZ
      [] kind = "Binary" -> REG_BINARY

\* data.length() of a string, multiString.size() of an encoded list and
\* data.size() of a byte vector: the lengths from each of these up to
\* MaxDelta more.  They lie around 0, around the lengths of a text and of
\* bytes that need 2^32 bytes, and beyond.
LengthBases ==
    { <<0, 0, 0, 0>>,
      <<Digit - 3, (Digit \div 2) - 1, 0, 0>>,
      <<Digit - 2, Digit - 1, 0, 0>>,
      <<Digit - 2, Digit - 1, 1, 0>>,
      <<Digit - 2, Digit - 1, (Digit \div 2) - 1, 0>> }
Lengths == { mulAdd(b, 1, d) : b \in LengthBases, d \in 0..MaxDelta }

\* The size in bytes a setter hands to Details::safeCastSizeToDword
byteSize(kind, length) ==
    CASE kind \in { "String", "ExpandString" } ->
             mulAdd(mulAdd(length, 1, 1), sizeofWchar, 0)
      [] kind = "MultiString" -> mulAdd(length, sizeofWchar, 0)
      [] kind = "Binary" -> length

\* The status of ::RegSetValueExW
RegSetValueExW_status == { ERROR_SUCCESS, ERROR_ACCESS_DENIED }

\* How a setter reports the status of the store call: the throwing form
\* throws a RegException unless it is ERROR_SUCCESS, the try form returns it.
Reported(call, status) ==
    IF status = ERROR_SUCCESS THEN Return(call.kind, <<>>)
    ELSE IF call.form = "set" THEN Throw(call.kind, status)
    ELSE Fail(call.kind, status)

SizeInit ==
    /\ KeyOpened /\ CodecIdle /\ ValueIdle /\ GetterIdle /\ KeyIdle /\ ProbeIdle /\ EnumIdle /\ DplnkIdle
    /\ s_pc = "input" /\ s_call = NoCall /\ s_calls = <<>> /\ s_result = NoResult
    /\ s_length \in Lengths

\* RegKey::setStringValue .. setBinaryValue(valueName, const std::vector<BYTE>&)
\* and their try forms, on data of s_length elements.  An encoded list has
\* at least its two terminators.
CallSetter(kind, form) ==
    /\ s_pc = "input"
    /\ isValid(m_hKey[1])
    /\ kind = "MultiString" => greater(s_length, size_t(1))
    /\ LET call == [ kind |-> kind, form |-> form ]
           dataSize == safeCastSizeToDword(byteSize(kind, s_length))
       IN  /\ s_call' = call
           /\ IF dataSize.overflow
              THEN /\ s_calls' = s_calls
                   /\ s_result' = Throw(kind, "std::overflow_error")
              ELSE \E status \in RegSetValueExW_status :
                     /\ s_calls' = Append(s_calls, [ type |-> TypeOf(kind),
                                                     cbData |-> dataSize.dword ])
                     /\ s_result' = Reported(call, status)
    /\ s_pc' = "done"
    /\ UNCHANGED <<s_length, hvars, cvars, vvars, gvars, kvars, pvars, evars, dvars>>

SizeNext == \E kind \in SetterKinds, form \in SetterForms : CallSetter(kind, form)

SizeSpec == SizeInit /\ [][SizeNext]_vars

\* The byte size of the data of a setter call as a number of five digits,
\* in arithmetic that does not wrap: (length + 1) * unit for a text,
\* length * unit for an encoded list, length for bytes.
ExactBytes(kind, length) ==
    LET plus == IF kind \in { "String", "ExpandString" } THEN 1 ELSE 0
        unit == IF kind = "Binary" THEN 1 ELSE sizeofWchar
        e1 == (length[1] + plus) * unit
        e2 == length[2] * unit + e1 \div Digit
        e3 == length[3] * unit + e2 \div Digit
        e4 == length[4] * unit + e3 \div Digit
    IN  <<e1 % Digit, e2 % Digit, e3 % Digit, e4 % Digit, e4 \div Digit>>

\* C15: a setter for text, a string list or a byte vector, in either form,
\* whose data needs more than 2^32 - 1 bytes makes no store call and fails;
\* every store call a setter makes has the type of the setter and the exact
\* byte size of the data as cbData, and a setter whose data fits makes
\* exactly one store call.
C15_ExactSizeOrNoCall ==
    s_pc = "done" =>
        LET exact == ExactBytes(s_call.kind, s_length)
            fits == exact[3] = 0 /\ exact[4] = 0 /\ exact[5] = 0
        IN  IF fits
            THEN s_calls = << [ type |-> TypeOf(s_call.kind),
                               cbData |-> <<exact[1], exact[2]>> ] >>
            ELSE /\ s_calls = <<>>
                 /\ s_result.thrown \/ s_result.status # ERROR_SUCCESS

\* trySetStringValue was called with a text of 2^31 - 1 characters, whose
\* (length + 1) * sizeof(wchar_t) is 2^32, and made no store call.
C15_Witness ==
    /\ s_pc = "done"
    /\ s_call = [ kind |-> "String", form |-> "trySet" ]
    /\ s_length = <<Digit - 1, (Digit \div 2) - 1, 0, 0>>
    /\ s_calls = <<>>
    /\ s_result.status # ERROR_SUCCESS

\* C16: a try form never throws; a size overflow in trySetStringValue,
\* trySetExpandStringValue, trySetMultiStringValue and trySetBinaryValue is
\* reported as a returned error.
C16_TryFormNeverThrows ==
    (s_pc = "done" /\ s_call.form = "trySet") => ~s_result.thrown

-----------------------------------------------------------------------------
(* Operations on the content of an open key: deleteValue .. disableReflectionKey *)
(* in their throwing and try forms.  The open key is taken with its values,  *)
(* its child keys (deep: those that have child keys themselves), the child   *)
(* keys copied to the destination of copyTree, and whether it was flushed,   *)
(* saved to the file and has reflection enabled.                             *)

Names == { "A", "B" }

KeyContents ==
    { [ values |-> v, children |-> c, deep |-> d, copied |-> {},
        flushed |-> FALSE, saved |-> sv, reflection |-> rf ] :
        v \in SUBSET Names, c \in SUBSET Names, d \in SUBSET Names,
        sv \in BOOLEAN, rf \in BOOLEAN }

ERROR_ALREADY_EXISTS == "ERROR_ALREADY_EXISTS"

\* What a store primitive may answer: the store may refuse any call.
Answers(status, store, after) ==
    IF status # ERROR_SUCCESS
    THEN { [ status |-> status, store |-> store ] }
    ELSE { [ status |-> ERROR_SUCCESS, store |-> after ],
           [ status |-> ERROR_ACCESS_DENIED, store |-> store ] }

\* ::RegDeleteValueW(m_hKey, valueName)
RegDeleteValueW(store, name) ==
    Answers(IF name \in store.values THEN ERROR_SUCCESS ELSE ERROR_FILE_NOT_FOUND,
            store, [ store EXCEPT !.values = @ \ { name } ])

\* ::RegDeleteKeyW(m_hKey, subKey): deletes a child key that has no child keys
RegDeleteKeyW(store, name) ==
    Answers(IF name \notin store.children THEN ERROR_FILE_NOT_FOUND
            ELSE IF name \in store.deep THEN ERROR_ACCESS_DENIED
            ELSE ERROR_SUCCESS,
            store, [ store EXCEPT !.children = @ \ { name } ])

\* ::RegDeleteKeyExW(m_hKey, subKey, desiredAccess, 0)
RegDeleteKeyExW(store, name) == RegDeleteKeyW(store, name)

\* ::RegDeleteTreeW(m_hKey, subKey)
RegDeleteTreeW(store, name) ==
    Answers(IF name \in store.children THEN ERROR_SUCCESS ELSE ERROR_FILE_NOT_FOUND,
            store, [ store EXCEPT !.children = @ \ { name }, !.deep = @ \ { name } ])

\* ::RegCopyTreeW(m_hKey, srcSubKey, dstKey.get())
RegCopyTreeW(store, name) ==
    Answers(IF name \in store.children THEN ERROR_SUCCESS ELSE ERROR_FILE_NOT_FOUND,
            store, [ store EXCEPT !.copied = @ \cup { name } ])

\* ::RegFlushKey(m_hKey)
RegFlushKey(store) ==
    Answers(ERROR_SUCCESS, store, [ store EXCEPT !.flushed = TRUE ])

\* ::RegSaveKeyW(m_hKey, filename, securityAttributes): fails when the file exists
RegSaveKeyW(store) ==
    Answers(IF store.saved THEN ERROR_ALREADY_EXISTS ELSE ERROR_SUCCESS,
            store, [ store EXCEPT !.saved = TRUE ])

\* ::RegEnableReflectionKey(m_hKey)
RegEnableReflectionKey(store) ==
    Answers(ERROR_SUCCESS, store, [ store EXCEPT !.reflection = TRUE ])

\* ::RegDisableReflectionKey(m_hKey)
RegDisableReflectionKey(store) ==
    Answers(ERROR_SUCCESS, store, [ store EXCEPT !.reflection = FALSE ])

KeyOps ==
    { "deleteValue", "deleteKey", "deleteTree", "copyTree", "flushKey",
      "saveKey", "enableReflectionKey", "disableReflectionKey" }
KeyForms == { "throwing", "try" }

\* The store primitive each method calls
PrimitiveOf(op, form) ==
    CASE op = "deleteValue" ->
             IF form = "throwing" THEN "RegDeleteKeyW" ELSE "RegDeleteValueW"
      [] op = "deleteKey" -> "RegDeleteKeyExW"
      [] op = "deleteTree" -> "RegDeleteTreeW"
      [] op = "copyTree" -> "RegCopyTreeW"
      [] op = "flushKey" -> "RegFlushKey"
      [] op = "saveKey" -> "RegSaveKeyW"
      [] op = "enableReflectionKey" -> "RegEnableReflectionKey"
      [] op = "disableReflectionKey" -> "RegDisableReflectionKey"

\* The answers of the primitive fn called with the name
Primitive(fn, store, name) ==
    CASE fn = "RegDeleteValueW" -> RegDeleteValueW(store, name)
      [] fn = "RegDeleteKeyW" -> RegDeleteKeyW(store, name)
      [] fn = "RegDeleteKeyExW" -> RegDeleteKeyExW(store, name)
      [] fn = "RegDeleteTreeW" -> RegDeleteTreeW(store, name)
      [] fn = "RegCopyTreeW" -> RegCopyTreeW(store, name)
      [] fn = "RegFlushKey" -> RegFlushKey(store)
      [] fn = "RegSaveKeyW" -> RegSaveKeyW(store)
      [] fn = "RegEnableReflectionKey" -> RegEnableReflectionKey(store)
      [] fn = "RegDisableReflectionKey" -> RegDisableReflectionKey(store)

\* The methods without a name argument
Nameless == { "flushKey", "saveKey", "enableReflectionKey", "disableReflectionKey" }

\* A method in one of its forms: one call of its primitive, whose status is
\* thrown as a RegException by the throwing form unless it is
\* ERROR_SUCCESS, and returned as a RegResult by the try form.
KeyOp(op, form, store, name) ==
    LET fn == PrimitiveOf(op, form)
    IN  { [ calls |-> << [ fn |-> fn, name |-> name ] >>,
            store |-> a.store,
            result |-> IF a.status = ERROR_SUCCESS THEN Return(op, <<>>)
                       ELSE IF form = "throwing" THEN Throw(op, a.status)
                       ELSE Fail(op, a.status) ] :
          a \in Primitive(fn, store, name) }

KeyInit ==
    /\ KeyOpened /\ CodecIdle /\ ValueIdle /\ GetterIdle /\ SizeIdle /\ ProbeIdle /\ EnumIdle /\ DplnkIdle
    /\ k_pc = "ready" /\ k_call = NoKeyCall /\ k_calls = <<>> /\ k_result = NoResult
    /\ k_store \in { c \in KeyContents : c.deep \subseteq c.children }
    /\ k_before = k_store

CallKeyOp(op, form, name) ==
    /\ k_pc = "ready"
    /\ isValid(m_hKey[1])
    /\ op \in Nameless => name = ""
    /\ op \notin Nameless => name \in Names
    /\ \E r \in KeyOp(op, form, k_store, name) :
         /\ k_store' = r.store
         /\ k_calls' = r.calls
         /\ k_result' = r.result
    /\ k_call' = [ op |-> op, form |-> form, name |-> name ]
    /\ k_pc' = "done"
    /\ UNCHANGED <<k_before, hvars, cvars, vvars, gvars, svars, pvars, evars, dvars>>

KeyNext ==
    \E op \in KeyOps, form \in KeyForms, name \in Names \cup { "" } :
        CallKeyOp(op, form, name)

KeySpec == KeyInit /\ [][KeyNext]_vars

\* C17: whatever a method did in one form, the other form can do from the
\* same store: the same primitive called with the same argument, the same
\* store afterwards, and the same status, thrown by the throwing form
\* exactly when the try form returns it as a failure.
C17_FormsAgree ==
    k_pc = "done" =>
        LET other == IF k_call.form = "throwing" THEN "try" ELSE "throwing"
        IN  \E r \in KeyOp(k_call.op, other, k_before, k_call.name) :
              /\ r.calls = k_calls
              /\ r.store = k_store
              /\ r.result.status = k_result.status
              /\ (r.result.thrown \/ k_result.thrown) = (k_result.status # ERROR_SUCCESS)

\* C18: deleteValue(name) leaves the child keys of the key as they were;
\* when it succeeds the key had a value called name and has lost just that
\* value; when the key has no value called name it fails and the store is
\* unchanged.
C18_DeleteValueDeletesValue ==
    (k_pc = "done" /\ k_call.op = "deleteValue") =>
        /\ k_store.children = k_before.children
        /\ k_store.deep = k_before.deep
        /\ k_result.status = ERROR_SUCCESS =>
               /\ k_call.name \in k_before.values
               /\ k_store = [ k_before EXCEPT !.values = @ \ { k_call.name } ]
        /\ k_call.name \notin k_before.values =>
               /\ k_result.status # ERROR_SUCCESS
               /\ k_store = k_before

-----------------------------------------------------------------------------
(* hasValue, hasSubKey and their try forms                                   *)

ERROR_PATH_NOT_FOUND == "ERROR_PATH_NOT_FOUND"

\* The status of ::RegGetValueW(m_hKey, nullptr, valueName, RRF_RT_ANY,
\* nullptr, nullptr, nullptr): success needs the value, "file not found"
\* its absence; the store may fail the call with another status.
ValueProbe(store, name) ==
    (IF name \in store.values THEN { ERROR_SUCCESS } ELSE { ERROR_FILE_NOT_FOUND })
        \cup { ERROR_PATH_NOT_FOUND, ERROR_ACCESS_DENIED, ERROR_INVALID_HANDLE }

\* The status of ::RegOpenKeyExW(m_hKey, subKey, 0, KEY_READ, &hSubKey)
SubKeyProbe(store, name) ==
    (IF name \in store.children THEN { ERROR_SUCCESS }
     ELSE { ERROR_FILE_NOT_FOUND, ERROR_PATH_NOT_FOUND })
        \cup { ERROR_ACCESS_DENIED, ERROR_INVALID_HANDLE }

\* return true / return false, and RegExpected<bool>{ true / false }
Has(b) == [ thrown |-> FALSE, status |-> ERROR_SUCCESS, has |-> b ]

\* throw RegException{ errorCode, ... }
HasThrown(status) == [ thrown |-> TRUE, status |-> status, has |-> FALSE ]

\* Details::makeRegExpectedWithError<bool>(errorCode)
HasFailed(status) == [ thrown |-> FALSE, status |-> status, has |-> FALSE ]

\* A hasValue for which "path not found" means absence, too.
hasValue_pathNotFoundIsAbsent(errorCode) ==
    IF errorCode = ERROR_SUCCESS THEN Has(TRUE)
    ELSE IF errorCode \in { ERROR_FILE_NOT_FOUND, ERROR_PATH_NOT_FOUND } THEN Has(FALSE)
    ELSE HasThrown(errorCode)

\* RegKey::hasValue(valueName), after its RegGetValueW call
hasValue(errorCode) ==
    IF errorCode = ERROR_SUCCESS THEN Has(TRUE)
    ELSE IF errorCode = ERROR_FILE_NOT_FOUND THEN Has(FALSE)
    ELSE HasThrown(errorCode)

\* RegKey::hasSubKey(subKey), after its RegOpenKeyExW call
hasSubKey(errorCode) ==
    IF errorCode = ERROR_SUCCESS THEN Has(TRUE)
    ELSE IF (errorCode = ERROR_FILE_NOT_FOUND) \/ (errorCode = ERROR_PATH_NOT_FOUND)
    THEN Has(FALSE)
    ELSE HasThrown(errorCode)

\* RegKey::tryHasValue(valueName), after its RegGetValueW call
tryHasValue(errorCode) ==
    IF errorCode = ERROR_SUCCESS THEN Has(TRUE)
    ELSE IF errorCode = ERROR_FILE_NOT_FOUND THEN Has(FALSE)
    ELSE HasFailed(errorCode)

\* RegKey::tryHasSubKey(subKey), after its RegOpenKeyExW call
tryHasSubKey(errorCode) ==
    IF errorCode = ERROR_SUCCESS THEN Has(TRUE)
    ELSE IF (errorCode = ERROR_FILE_NOT_FOUND) \/ (errorCode = ERROR_PATH_NOT_FOUND)
    THEN Has(FALSE)
    ELSE HasFailed(errorCode)

ProbeInit ==
    /\ KeyOpened /\ CodecIdle /\ ValueIdle /\ GetterIdle /\ SizeIdle /\ KeyIdle /\ EnumIdle /\ DplnkIdle
    /\ p_pc = "ready" /\ p_call = NoKeyCall /\ p_calls = <<>> /\ p_result = NoAnswer
    /\ p_store \in { c \in KeyContents :
                       c.deep = {} /\ ~c.saved /\ ~c.reflection }

\* One of the two value probes is called.
HasValue(form, name) ==
    /\ p_pc = "ready"
    /\ isValid(m_hKey[1])
    /\ \E errorCode \in ValueProbe(p_store, name) :
         /\ p_calls' = << [ fn |-> "RegGetValueW", status |-> errorCode ] >>
         /\ p_result' = IF form = "throwing" THEN hasValue(errorCode)
                        ELSE tryHasValue(errorCode)
    /\ p_call' = [ op |-> "hasValue", form |-> form, name |-> name ]
    /\ p_pc' = "done"
    /\ UNCHANGED <<p_store, hvars, cvars, vvars, gvars, svars, kvars, evars, dvars>>

\* A sub-key probe that leaves the sub-key it opened open.
HasSubKey_leaksProbe(form, name) ==
    /\ p_pc = "ready"
    /\ isValid(m_hKey[1])
    /\ \E errorCode \in SubKeyProbe(p_store, name) :
         /\ p_calls' = << [ fn |-> "RegOpenKeyExW", status |-> errorCode ] >>
         /\ p_result' = IF form = "throwing" THEN hasSubKey(errorCode)
                        ELSE tryHasSubKey(errorCode)
         /\ LET w == IF errorCode = ERROR_SUCCESS
                     THEN NewHandle(World, "RegOpenKeyExW", m_hKey[1])
                     ELSE World
            IN  /\ isOpen' = w.isOpen
                /\ closeCount' = w.closeCount
                /\ nextRef' = w.nextRef
    /\ p_call' = [ op |-> "hasSubKey", form |-> form, name |-> name ]
    /\ p_pc' = "done"
    /\ UNCHANGED <<p_store, m_hKey, alive, callerRefs, keys, last,
                   cvars, vvars, gvars, svars, kvars, evars, dvars>>

\* One of the two sub-key probes is called.  When the store opens the
\* sub-key it hands out a new handle hSubKey, which the probe closes
\* before it returns.
HasSubKey(form, name) ==
    /\ p_pc = "ready"
    /\ isValid(m_hKey[1])
    /\ \E errorCode \in SubKeyProbe(p_store, name) :
         /\ p_calls' = << [ fn |-> "RegOpenKeyExW", status |-> errorCode ] >> \o
                       (IF errorCode = ERROR_SUCCESS
                        THEN << [ fn |-> "RegCloseKey", status |-> ERROR_SUCCESS ] >>
                        ELSE <<>>)
         /\ p_result' = IF form = "throwing" THEN hasSubKey(errorCode)
                        ELSE tryHasSubKey(errorCode)
         /\ LET w == IF errorCode = ERROR_SUCCESS
                     THEN RegCloseKey(NewHandle(World, "RegOpenKeyExW", m_hKey[1]),
                                      nextRef)
                     ELSE World
            IN  /\ isOpen' = w.isOpen
                /\ closeCount' = w.closeCount
                /\ nextRef' = w.nextRef
    /\ p_call' = [ op |-> "hasSubKey", form |-> form, name |-> name ]
    /\ p_pc' = "done"
    /\ UNCHANGED <<p_store, m_hKey, alive, callerRefs, keys, last,
                   cvars, vvars, gvars, svars, kvars, evars, dvars>>

ProbeNext ==
    \/ \E form \in KeyForms, name \in Names : HasValue(form, name)
    \/ \E form \in KeyForms, name \in Names : HasSubKey(form, name)

ProbeSpec == ProbeInit /\ [][ProbeNext]_vars

\* C19: hasValue, hasSubKey and their try forms return true when the probe
\* succeeded, false with no error when it reported ERROR_FILE_NOT_FOUND (a
\* sub-key probe: or ERROR_PATH_NOT_FOUND), and for every other status of
\* the probe the throwing form throws it and the try form returns it as an
\* error.
C19_ExistenceDuality ==
    p_pc = "done" =>
        LET status == p_calls[1].status
            absent == \/ status = ERROR_FILE_NOT_FOUND
                      \/ p_call.op = "hasSubKey" /\ status = ERROR_PATH_NOT_FOUND
        IN  IF status = ERROR_SUCCESS
            THEN p_result = [ thrown |-> FALSE, status |-> ERROR_SUCCESS, has |-> TRUE ]
            ELSE IF absent
            THEN p_result = [ thrown |-> FALSE, status |-> ERROR_SUCCESS, has |-> FALSE ]
            ELSE /\ p_result.status = status
                 /\ p_result.thrown = (p_call.form = "throwing")
                 /\ ~p_result.has

\* hasValue was refused with ERROR_PATH_NOT_FOUND for a value that exists
\* and threw that status.
C19_Witness ==
    /\ p_pc = "done"
    /\ p_call.op = "hasValue" /\ p_call.form = "throwing"
    /\ p_call.name \in p_store.values
    /\ p_calls[1].status = ERROR_PATH_NOT_FOUND
    /\ p_result.thrown /\ p_result.status = ERROR_PATH_NOT_FOUND

-----------------------------------------------------------------------------
(* enumSubKeys, enumValues and their try forms, call by call, on a key whose *)
(* sub-keys and values other processes may change between two calls.        *)

EnumKinds == { "SubKeys", "Values" }

\* Names of sub-keys and values, of different lengths
EntryNames == { <<97>>, <<97, 9786>> }

\* The sub-keys or the values of a key in the order of the store: a name
\* and, for a value, its type.  No two entries have the same name.
EntryLists ==
    { l \in UNION { [1..n -> [ name : EntryNames, type : { REG_SZ, REG_DWORD } ]] :
                      n \in 0..MaxEntries } :
        \A i, j \in 1..Len(l) : l[i].name = l[j].name => i = j }

ERROR_NO_MORE_ITEMS == "ERROR_NO_MORE_ITEMS"

\* std::max over the lengths of the names
RECURSIVE maxNameLength(_)
maxNameLength(entries) ==
    IF entries = <<>> THEN 0
    ELSE LET rest == maxNameLength(Tail(entries))
             len == Len(Head(entries).name)
         IN  IF len > rest THEN len ELSE rest

\* A store call as recorded: the function, the index asked for, the status
\* and what the call wrote to its output arguments
StoreCall(fn, index, status, count, name, type) ==
    [ fn |-> fn, index |-> index, status |-> status, count |-> count,
      name |-> name, type |-> type ]

\* ::RegQueryInfoKeyW(m_hKey, ..., &subKeyCount, &maxSubKeyNameLength, ...)
\* or (..., &valueCount, &maxValueNameLength, ...): the number of entries
\* and the length of their longest name without terminator
RegQueryInfoKeyW(entries) ==
    { [ status |-> ERROR_SUCCESS, count |-> Len(entries),
        maxLength |-> maxNameLength(entries) ],
      [ status |-> ERROR_ACCESS_DENIED, count |-> 0, maxLength |-> 0 ] }

\* ::RegEnumKeyExW / ::RegEnumValueW(m_hKey, i, nameBuffer, &nameLength, ...)
\* with a buffer of nameLength characters: the name of entry i without
\* terminator and its type, unless there is no entry i or the buffer has
\* no room for the name and its terminator
RegEnumW(entries, i, nameLength) ==
    { IF i >= Len(entries)
      THEN [ status |-> ERROR_NO_MORE_ITEMS, name |-> <<>>, type |-> "none" ]
      ELSE IF Len(entries[i + 1].name) + 1 > nameLength
      THEN [ status |-> ERROR_MORE_DATA, name |-> <<>>, type |-> "none" ]
      ELSE [ status |-> ERROR_SUCCESS, name |-> entries[i + 1].name,
             type |-> entries[i + 1].type ],
      [ status |-> ERROR_ACCESS_DENIED, name |-> <<>>, type |-> "none" ] }

\* How an enumeration reports a failed store call
EnumFailed(call, status) ==
    IF call.form = "throwing" THEN Throw(call.kind, status) ELSE Fail(call.kind, status)

\* subKeys.emplace_back(name, length) / valueInfo.emplace_back(name, type)
emplace_back(kind, list, r) ==
    Append(list, IF kind = "SubKeys" THEN r.name ELSE <<r.name, r.type>>)

\* The name of the store function that reads one entry
EnumFn(kind) == IF kind = "SubKeys" THEN "RegEnumKeyExW" ELSE "RegEnumValueW"

EnumInit ==
    /\ KeyOpened /\ CodecIdle /\ ValueIdle /\ GetterIdle /\ SizeIdle /\ KeyIdle /\ DplnkIdle
    /\ ProbeIdle
    /\ e_pc = "idle" /\ e_call = NoCall /\ e_count = 0 /\ e_maxLength = 0
    /\ e_list = <<>> /\ e_calls = <<>> /\ e_writes = 0 /\ e_seen = {}
    /\ e_result = NoResult
    /\ e_store \in EntryLists

\* An enumeration is called.
CallEnum(kind, form) ==
    /\ e_pc = "idle"
    /\ isValid(m_hKey[1])
    /\ e_call' = [ kind |-> kind, form |-> form ]
    /\ e_pc' = "query"
    /\ e_seen' = { e_store }
    /\ UNCHANGED <<e_store, e_count, e_maxLength, e_list, e_calls, e_writes,
                   e_result, hvars, cvars, vvars, gvars, svars, kvars, pvars, dvars>>

\* The metadata query.  A failure ends the method; otherwise the name
\* buffer gets room for the longest name and its terminator, and the
\* method returns the empty list when the count is 0.
QueryInfo ==
    /\ e_pc = "query"
    /\ \E r \in RegQueryInfoKeyW(e_store) :
         /\ e_calls' = Append(e_calls,
                StoreCall("RegQueryInfoKeyW", 0, r.status, r.count, <<>>, "none"))
         /\ e_count' = r.count
         /\ e_maxLength' = IF r.status = ERROR_SUCCESS THEN r.maxLength + 1 ELSE r.maxLength
         /\ IF r.status # ERROR_SUCCESS
            THEN e_pc' = "done" /\ e_result' = EnumFailed(e_call, r.status)
            ELSE IF r.count = 0
            THEN e_pc' = "done" /\ e_result' = Return(e_call.kind, <<>>)
            ELSE e_pc' = "item" /\ UNCHANGED e_result
    /\ UNCHANGED <<e_call, e_store, e_list, e_writes, e_seen,
                   hvars, cvars, vvars, gvars, svars, kvars, pvars, dvars>>

\* An item call after whose failure the loop goes on with the next index.
EnumItem_skipsFailure ==
    /\ e_pc = "item"
    /\ LET i == Len(e_calls) - 1
       IN  \E r \in RegEnumW(e_store, i, e_maxLength) :
             /\ e_calls' = Append(e_calls,
                    StoreCall(EnumFn(e_call.kind), i, r.status, 0, r.name, r.type))
             /\ e_list' = IF r.status = ERROR_SUCCESS
                          THEN emplace_back(e_call.kind, e_list, r) ELSE e_list
             /\ IF i + 1 < e_count
                THEN e_pc' = "item" /\ UNCHANGED e_result
                ELSE e_pc' = "done" /\ e_result' = Return(e_call.kind, e_list')
    /\ UNCHANGED <<e_call, e_store, e_count, e_maxLength, e_writes, e_seen,
                   hvars, cvars, vvars, gvars, svars, kvars, pvars, dvars>>

\* One turn of the loop: the call for index i, i being the number of
\* entries collected.  A failure ends the method; otherwise the entry is
\* appended, and the list is returned when it was the last index.
EnumItem ==
    /\ e_pc = "item"
    /\ LET i == Len(e_list)
       IN  \E r \in RegEnumW(e_store, i, e_maxLength) :
             /\ e_calls' = Append(e_calls,
                    StoreCall(EnumFn(e_call.kind), i, r.status, 0, r.name, r.type))
             /\ IF r.status # ERROR_SUCCESS
                THEN /\ e_pc' = "done"
                     /\ e_result' = EnumFailed(e_call, r.status)
                     /\ UNCHANGED e_list
                ELSE /\ e_list' = emplace_back(e_call.kind, e_list, r)
                     /\ IF i + 1 < e_count
                        THEN e_pc' = "item" /\ UNCHANGED e_result
                        ELSE e_pc' = "done" /\ e_result' = Return(e_call.kind, e_list')
    /\ UNCHANGED <<e_call, e_store, e_count, e_maxLength, e_writes, e_seen,
                   hvars, cvars, vvars, gvars, svars, kvars, pvars, dvars>>

\* Another process changes the entries of the key while the method runs.
ChangeEntries(entries) ==
    /\ e_pc \in { "query", "item" }
    /\ e_writes < MaxWrites
    /\ entries # e_store
    /\ e_store' = entries
    /\ e_writes' = e_writes + 1
    /\ e_seen' = e_seen \cup { entries }
    /\ UNCHANGED <<e_pc, e_call, e_count, e_maxLength, e_list, e_calls, e_result,
                   hvars, cvars, vvars, gvars, svars, kvars, pvars, dvars>>

EnumNext ==
    \/ \E kind \in EnumKinds, form \in KeyForms : CallEnum(kind, form)
    \/ QueryInfo
    \/ EnumItem
    \/ \E entries \in EntryLists : ChangeEntries(entries)

EnumSpec == EnumInit /\ [][EnumNext]_vars

\* C20: an enumeration that has ended either reports the status of its
\* last store call, which is its only failed one, and hands out no list;
\* or all its calls succeeded and it returns a list of exactly count
\* entries, count being the number the metadata query reported, whose
\* entry i is the name (for values: the name and the type) that the call
\* for index i returned, the calls being made for the indices 0, 1, ...,
\* count - 1 in this order.
C20_FullListOrError ==
    e_pc = "done" =>
        LET n == Len(e_calls)
            count == e_calls[1].count
            entry(c) == IF e_call.kind = "SubKeys" THEN c.name ELSE <<c.name, c.type>>
        IN  /\ e_calls[1].fn = "RegQueryInfoKeyW"
            /\ \A j \in 2..n : e_calls[j].fn = EnumFn(e_call.kind) /\ e_calls[j].index = j - 2
            /\ \A j \in 1..(n - 1) : e_calls[j].status = ERROR_SUCCESS
            /\ IF e_calls[n].status # ERROR_SUCCESS
               THEN /\ e_result.status = e_calls[n].status
                    /\ e_result.thrown = (e_call.form = "throwing")
                    /\ e_result.value = <<>>
               ELSE /\ ~e_result.thrown
                    /\ e_result.status = ERROR_SUCCESS
                    /\ n = count + 1
                    /\ Len(e_result.value) = count
                    /\ \A i \in 1..count : e_result.value[i] = entry(e_calls[i + 1])

\* tryEnumValues read the entry of index 0, was refused the entry of
\* index 1 and returned that status without a list.
C20_Witness ==
    /\ e_pc = "done"
    /\ e_call = [ kind |-> "Values", form |-> "try" ]
    /\ Len(e_calls) = 3
    /\ e_calls[2].status = ERROR_SUCCESS
    /\ e_calls[3].status # ERROR_SUCCESS
    /\ e_result.status = e_calls[3].status
    /\ e_result.value = <<>>

\* The list an enumeration of this kind returns for a key with these entries
ListOf(kind, entries) ==
    [ i \in 1..Len(entries) |->
        IF kind = "SubKeys" THEN entries[i].name ELSE <<entries[i].name, entries[i].type>> ]

\* C29: an enumeration during which other processes changed the entries of
\* the key either reports an error or returns the complete list of the
\* entries the key had at one moment of the call.
C29_ListOfOneMoment ==
    (e_pc = "done" /\ ~e_result.thrown /\ e_result.status = ERROR_SUCCESS) =>
        \E entries \in e_seen :
            /\ Len(e_result.value) = Len(entries)
            /\ { e_result.value[i] : i \in 1..Len(e_result.value) }
                   = { ListOf(e_call.kind, entries)[i] : i \in 1..Len(entries) }

-----------------------------------------------------------------------------
(* The variable-length getters under a writer that changes the value at     *)
(* most MaxWrites times while the getter runs.  The thread of the getter    *)
(* keeps running: a store call that can be made is made.                    *)

GetterLiveSpec == GetterSpec /\ WF_vars(SizeQuery) /\ WF_vars(Fill)

\* C26: a fill call returns ERROR_MORE_DATA only when the value was changed
\* between the size query of its round and the fill call, so that at most
\* one size query is made after the last change; and a getter that was
\* called ends, with a value or an error, the value being changed at most
\* MaxWrites times.
C26_GetterTerminates ==
    /\ [](\A i \in 1..Len(g_calls) :
            Was(g_calls[i], "fill", ERROR_MORE_DATA) =>
                g_calls[i].writes > g_calls[i - 1].writes)
    /\ [](Cardinality({ i \in 1..Len(g_calls) :
                          g_calls[i].stage = "size" /\ g_calls[i].writes = g_writes }) <= 1)
    /\ (g_pc \in { "size", "fill" } ~> g_pc = "done")

\* A getter ended after the value was changed MaxWrites times, having
\* gone round once for each change.
C26_Witness ==
    /\ g_pc = "done"
    /\ g_writes = MaxWrites
    /\ Cardinality({ i \in 1..Len(g_calls) :
                       Was(g_calls[i], "fill", ERROR_MORE_DATA) }) = MaxWrites

\* The entries of a list, each followed by its terminator
RECURSIVE Flatten(_)
Flatten(list) ==
    IF list = <<>> THEN <<>>
    ELSE Head(list) \o <<NUL>> \o Flatten(Tail(list))

\* C28: a value a variable-length getter returns is the complete value
\* that was stored when the getter made its last store call: the bytes of
\* a binary value, the text of a string without its terminator, the
\* entries of a multi-string; it is neither cut short nor followed by
\* elements of the buffer.
C28_ReturnsValueOfLastCall ==
    (g_pc = "done" /\ ~g_result.thrown /\ g_result.status = ERROR_SUCCESS) =>
        LET c == g_calls[Len(g_calls)]
            d == c.store.data
            terminated == Len(d) >= 2 /\ d[Len(d)] = 0 /\ d[Len(d) - 1] = 0
            text == IF terminated THEN d ELSE d \o <<0, 0>>
            twice == terminated /\ Len(d) >= 4 /\ d[Len(d) - 2] = 0 /\ d[Len(d) - 3] = 0
            texts == IF twice THEN d ELSE text \o <<0, 0>>
        IN  /\ c.store.present
            /\ c.store = g_store
            /\ c.stage = "size" => g_call.kind = "Binary" /\ d = <<>>
            /\ CASE g_call.kind = "Binary" -> g_result.value = d
                 [] g_call.kind \in { "String", "ExpandString" } ->
                        BytesOfUnits(g_result.value) \o <<0, 0>> = text
                 [] g_call.kind = "MultiString" ->
                        BytesOfUnits(Flatten(g_result.value) \o <<NUL>>) = texts

\* A binary getter returned a value that had been replaced by a shorter
\* one between its size query and its fill call.
C28_Witness ==
    /\ g_pc = "done"
    /\ g_call.kind = "Binary"
    /\ ~g_result.thrown /\ g_result.status = ERROR_SUCCESS
    /\ Len(g_calls) = 2
    /\ Len(g_calls[1].store.data) > Len(g_calls[2].store.data)
    /\ g_result.value = g_calls[2].store.data
    /\ g_result.value # <<>>

-----------------------------------------------------------------------------
(* dplnk::dplnk(path, options), statement by statement, as the two          *)
(* translation units of the repository define it, and as a build without    *)
(* _WIN32 defines it.                                                       *)

\* What the program was built from
Builds == { "part_000", "part_001", "not _WIN32" }

\* The wide string literals of the function
L_URL == <<85, 82, 76, 58, 32>>
L_Protocol == <<32, 80, 114, 111, 116, 111, 99, 111, 108>>
L_URL_Protocol == <<85, 82, 76, 32, 80, 114, 111, 116, 111, 99, 111, 108>>
L_DefaultIcon == <<92, 68, 101, 102, 97, 117, 108, 116, 73, 99, 111, 110>>
L_url_dll ==
    <<67, 58, 92, 87, 105, 110, 100, 111, 119, 115, 92, 83, 121, 115, 116, 101, 109,
      51, 50, 92, 117, 114, 108, 46, 100, 108, 108, 44, 48>>
L_command ==
    <<92, 115, 104, 101, 108, 108, 92, 111, 112, 101, 110, 92, 99, 111, 109, 109, 97,
      110, 100>>
L_quote == <<34>>
L_quote_percent_1 == <<34, 32, 37, 49>>

\* Narrow strings, as the values of their bytes: L"p"; "a" and a string with
\* a byte above 127; the keys and values of options.d
Protocols == { <<112>> }
Paths == { <<97>>, <<233>> }
OptionKeys == { <<>>, <<107>> }
OptionValues == { <<118>>, <<233, 118>> }

nullopt == [ has_value |-> FALSE, value |-> [ key \in {} |-> <<>> ] ]

\* struct options
Options ==
    { [ protocol |-> protocol, d |-> d ] :
        protocol \in Protocols,
        d \in { nullopt } \cup
              { [ has_value |-> TRUE, value |-> map ] :
                  map \in UNION { [ ks -> OptionValues ] : ks \in SUBSET OptionKeys } } }

\* std::wstring(s.begin(), s.end()): every char converted to wchar_t; char
\* is signed and wchar_t has 16 bits
wstring(s) == [ i \in 1..Len(s) |-> IF s[i] < 128 THEN s[i] ELSE 65536 - 256 + s[i] ]

\* std::less<std::string>: the bytes compared as unsigned char
RECURSIVE less(_, _)
less(a, b) ==
    IF b = <<>> THEN FALSE
    ELSE IF a = <<>> THEN TRUE
    ELSE IF Head(a) # Head(b) THEN Head(a) < Head(b)
    ELSE less(Tail(a), Tail(b))

\* The [key, value] pairs of a std::map in the order of its iteration
RECURSIVE Pairs(_)
Pairs(map) ==
    IF DOMAIN map = {} THEN <<>>
    ELSE LET key == CHOOSE k \in DOMAIN map : \A other \in DOMAIN map \ {k} : less(k, other)
         IN  <<[ key |-> key, value |-> map[key] ]>>
                 \o Pairs([ k \in DOMAIN map \ {key} |-> map[k] ])

\* WinReg::RegKey obj{ hKeyParent, subKey };
RegKeyLocal(obj, hKeyParent, subKey) ==
    [ op |-> "RegKey", obj |-> obj, hKeyParent |-> hKeyParent, subKey |-> subKey,
      valueName |-> <<>>, data |-> <<>> ]

\* obj.setStringValue(valueName, data);
SetString(obj, valueName, data) ==
    [ op |-> "setStringValue", obj |-> obj, hKeyParent |-> nullptr, subKey |-> <<>>,
      valueName |-> valueName, data |-> data ]

\* The loop over *options.d
Extras(options) ==
    IF options.d.has_value
    THEN LET pairs == Pairs(options.d.value)
         IN  [ i \in 1..Len(pairs) |->
                 SetString("cmdkey", wstring(pairs[i].key), wstring(pairs[i].value)) ]
    ELSE <<>>

\* The statements of the body that call the store, in program order
Body(build, path, options) ==
    LET wprotocol == wstring(options.protocol)
        wpath == wstring(path)
    IN  CASE build = "part_000" ->
               << RegKeyLocal("protocolkey", HKEY_CLASSES_ROOT, wprotocol),
                  SetString("protocolkey", <<>>, L_URL \o wprotocol \o L_Protocol),
                  SetString("protocolkey", L_URL_Protocol, <<>>),
                  RegKeyLocal("iconkey", HKEY_CLASSES_ROOT, wprotocol \o L_DefaultIcon),
                  SetString("iconkey", <<>>, L_url_dll),
                  RegKeyLocal("cmdkey", HKEY_CLASSES_ROOT, wprotocol \o L_command),
                  SetString("cmdkey", <<>>, L_quote \o wpath \o L_quote_percent_1) >>
               \o Extras(options)
          [] build = "part_001" ->
               << RegKeyLocal("cmdkey", HKEY_CURRENT_USER, wprotocol \o L_command),
                  SetString("cmdkey", <<>>, L_quote \o wpath \o L_quote_percent_1) >>
               \o Extras(options)
          [] OTHER -> <<>>

\* A key without values
NoValues == [ valueName \in {} |-> NoValue ]

\* The sub-key and the keys above it
KeysOnPath(subKey) ==
    { SubSeq(subKey, 1, i - 1) : i \in { j \in 1..Len(subKey) : subKey[j] = 92 } }
        \cup { subKey }

\* The store after ::RegCreateKeyExW(hKeyParent, subKey, ...) succeeded:
\* the keys on the path that did not exist exist, without values.
Created(store, hKeyParent, subKey) ==
    [ key \in DOMAIN store \cup { <<hKeyParent, k>> : k \in KeysOnPath(subKey) } |->
        IF key \in DOMAIN store THEN store[key] ELSE NoValues ]

\* A value of a key of the store
ValueOf(store, key, valueName) ==
    IF key \in DOMAIN store /\ valueName \in DOMAIN store[key]
    THEN store[key][valueName]
    ELSE NoValue

\* The store after a value of a key was written
Stored(store, key, valueName, value) ==
    [ store EXCEPT ![key] =
        [ n \in DOMAIN @ \cup { valueName } |-> IF n = valueName THEN value ELSE @[n] ] ]

\* A store call as recorded
StoreOp(fn, h, key, valueName, data, status) ==
    [ fn |-> fn, h |-> h, key |-> key, valueName |-> valueName, data |-> data,
      status |-> status ]

\* Destructors that release every handle but that of the first local.
DestroyLocals_leaksFirst(objs, isOpenNow, calls) ==
    [ isOpen |-> isOpenNow \ { objs[i].m_hKey : i \in 2..Len(objs) },
      calls |-> calls \o [ i \in 1..(Len(objs) - 1) |->
                            StoreOp("RegCloseKey", objs[Len(objs) + 1 - i].m_hKey,
                                    objs[Len(objs) + 1 - i].key, <<>>, <<>>,
                                    ERROR_SUCCESS) ] ]

\* ~RegKey() of the locals that were constructed, the last one first: each
\* close() releases the handle, which is valid and not predefined.
DestroyLocals(objs, isOpenNow, calls) ==
    LET closed == { i \in 1..Len(objs) :
                      isValid(objs[i].m_hKey) /\ ~isPredefined(objs[i].m_hKey) }
        inOrder == SelectSeq([ i \in 1..Len(objs) |-> objs[Len(objs) + 1 - i] ],
                             LAMBDA o : isValid(o.m_hKey) /\ ~isPredefined(o.m_hKey))
    IN  [ isOpen |-> isOpenNow \ { objs[i].m_hKey : i \in closed },
          calls |-> calls \o [ i \in 1..Len(inOrder) |->
                                StoreOp("RegCloseKey", inOrder[i].m_hKey, inOrder[i].key,
                                        <<>>, <<>>, ERROR_SUCCESS) ] ]

\* The statement the call is at
Statement == Body(d_build, d_call.path, d_call.options)[d_ip]

\* The call leaves the function, by return or by an exception: the locals
\* are destroyed.
Leave(calls, result) ==
    LET after == DestroyLocals(d_objs, d_isOpen, calls)
    IN  /\ d_isOpen' = after.isOpen
        /\ d_calls' = after.calls
        /\ d_objs' = <<>>
        /\ d_result' = result
        /\ d_pc' = "done"

\* The store before the call: without keys, or with the command key of
\* an earlier registration under both roots
OldStore ==
    LET subKey == wstring(<<112>>) \o L_command
        old == [ present |-> TRUE, type |-> REG_SZ, data |-> BytesOfUnits(<<111, NUL>>) ]
        keys2 == Created(Created(NoStore, HKEY_CLASSES_ROOT, subKey),
                         HKEY_CURRENT_USER, subKey)
    IN  Stored(Stored(keys2, <<HKEY_CLASSES_ROOT, subKey>>, <<>>, old),
               <<HKEY_CURRENT_USER, subKey>>, <<>>, old)

DplnkInit ==
    /\ HandleInit /\ CodecIdle /\ ValueIdle /\ GetterIdle /\ SizeIdle /\ KeyIdle
    /\ ProbeIdle /\ EnumIdle
    /\ d_pc = "idle" /\ d_call = NoCall /\ d_ip = 0 /\ d_objs = <<>> /\ d_isOpen = {}
    /\ d_calls = <<>> /\ d_result = NoResult
    /\ d_build \in Builds
    /\ d_store \in { NoStore, OldStore }
    /\ d_before = d_store

\* dplnk::dplnk(path, options) is called.
CallDplnk(path, options) ==
    /\ d_pc = "idle"
    /\ d_call' = [ path |-> path, options |-> options ]
    /\ d_before' = d_store
    /\ d_ip' = 1
    /\ d_pc' = "run"
    /\ UNCHANGED <<d_build, d_store, d_objs, d_isOpen, d_calls, d_result, hvars, cvars, vvars, gvars, svars, kvars, pvars, evars>>

\* Without _WIN32 the body is the throw statement.
Unsupported ==
    /\ d_pc = "run"
    /\ d_build = "not _WIN32"
    /\ d_result' = Throw("dplnk", "std::runtime_error")
    /\ d_pc' = "done"
    /\ UNCHANGED <<d_build, d_call, d_ip, d_before, d_store, d_objs, d_isOpen, d_calls,
                   hvars, cvars, vvars, gvars, svars, kvars, pvars, evars>>

\* A RegKey local is constructed: the constructor calls create(), which
\* throws when ::RegCreateKeyExW fails and otherwise holds the new handle.
ConstructRegKey ==
    /\ d_pc = "run"
    /\ d_build # "not _WIN32"
    /\ d_ip <= Len(Body(d_build, d_call.path, d_call.options))
    /\ Statement.op = "RegKey"
    /\ LET key == <<Statement.hKeyParent, Statement.subKey>>
           hKey == 1 + Cardinality({ i \in 1..Len(d_calls) :
                                       d_calls[i].fn = "RegCreateKeyExW"
                                       /\ d_calls[i].status = ERROR_SUCCESS })
       IN  \E errorCode \in { ERROR_SUCCESS, ERROR_ACCESS_DENIED } :
             LET call == StoreOp("RegCreateKeyExW",
                                 IF errorCode = ERROR_SUCCESS THEN hKey ELSE nullptr,
                                 key, <<>>, <<>>, errorCode)
             IN  IF errorCode # ERROR_SUCCESS
                 THEN /\ Leave(Append(d_calls, call), Throw("dplnk", errorCode))
                      /\ UNCHANGED <<d_store, d_ip>>
                 ELSE /\ d_store' = Created(d_store, Statement.hKeyParent, Statement.subKey)
                      /\ d_isOpen' = d_isOpen \cup { hKey }
                      /\ d_objs' = Append(d_objs, [ obj |-> Statement.obj, m_hKey |-> hKey,
                                                    key |-> key ])
                      /\ d_calls' = Append(d_calls, call)
                      /\ d_ip' = d_ip + 1
                      /\ UNCHANGED <<d_pc, d_result>>
    /\ UNCHANGED <<d_build, d_call, d_before, hvars, cvars, vvars, gvars, svars, kvars, pvars, evars>>

\* A setStringValue statement: the value is written, or the RegException
\* of setStringValue leaves the function.
SetStringStatement ==
    /\ d_pc = "run"
    /\ d_build # "not _WIN32"
    /\ d_ip <= Len(Body(d_build, d_call.path, d_call.options))
    /\ Statement.op = "setStringValue"
    /\ LET o == CHOOSE o \in { d_objs[i] : i \in 1..Len(d_objs) } : o.obj = Statement.obj
       IN  \E r \in setStringValue(ValueOf(d_store, o.key, Statement.valueName),
                                   Statement.data) :
             LET call == StoreOp("RegSetValueExW", o.m_hKey, o.key, Statement.valueName,
                                 Statement.data, r.status)
             IN  IF r.thrown
                 THEN /\ Leave(Append(d_calls, call), Throw("dplnk", r.status))
                      /\ UNCHANGED <<d_store, d_ip>>
                 ELSE /\ d_store' = Stored(d_store, o.key, Statement.valueName, r.store)
                      /\ d_calls' = Append(d_calls, call)
                      /\ d_ip' = d_ip + 1
                      /\ UNCHANGED <<d_pc, d_objs, d_isOpen, d_result>>
    /\ UNCHANGED <<d_build, d_call, d_before, hvars, cvars, vvars, gvars, svars, kvars, pvars, evars>>

\* The end of the body is reached: the function returns.
ReturnFromDplnk ==
    /\ d_pc = "run"
    /\ d_build # "not _WIN32"
    /\ d_ip = Len(Body(d_build, d_call.path, d_call.options)) + 1
    /\ Leave(d_calls, Return("dplnk", <<>>))
    /\ UNCHANGED <<d_build, d_call, d_ip, d_before, d_store, hvars, cvars, vvars, gvars, svars, kvars, pvars, evars>>

DplnkNext ==
    \/ \E path \in Paths, options \in Options : CallDplnk(path, options)
    \/ Unsupported
    \/ ConstructRegKey
    \/ SetStringStatement
    \/ ReturnFromDplnk

DplnkSpec == DplnkInit /\ [][DplnkNext]_vars

\* The calls of a kind among the store calls dplnk made
IsCreate(c) == c.fn = "RegCreateKeyExW"
IsSetValue(c) == c.fn = "RegSetValueExW"
IsClose(c) == c.fn = "RegCloseKey"

\* dplnk has ended in a build for Windows
Ended == d_pc = "done" /\ d_build # "not _WIN32"

\* C23: a dplnk that returned has written, in this order, the description
\* as the default value of the protocol key, the "URL Protocol" marker of
\* that key, the icon path as the default value of its DefaultIcon key, the
\* command line as the default value of its shell\open\command key, and
\* then the entries of options.d as values of the command key, all under
\* one root; the three keys exist.
C23_WritesInOrder ==
    (Ended /\ ~d_result.thrown) =>
        LET written == SelectSeq(d_calls, IsSetValue)
            protocol == wstring(d_call.options.protocol)
            line == L_quote \o wstring(d_call.path) \o L_quote_percent_1
            d == d_call.options.d
            extras == IF d.has_value
                      THEN { <<wstring(k), wstring(d.value[k])>> : k \in DOMAIN d.value }
                      ELSE {}
            Wrote(c, key, valueName, data) ==
                c.key = key /\ c.valueName = valueName /\ c.data = data
                /\ c.status = ERROR_SUCCESS
        IN  \E root \in PredefinedRoots :
              /\ Len(written) = 4 + Cardinality(extras)
              /\ Wrote(written[1], <<root, protocol>>, <<>>, L_URL \o protocol \o L_Protocol)
              /\ Wrote(written[2], <<root, protocol>>, L_URL_Protocol, <<>>)
              /\ Wrote(written[3], <<root, protocol \o L_DefaultIcon>>, <<>>, L_url_dll)
              /\ Wrote(written[4], <<root, protocol \o L_command>>, <<>>, line)
              /\ \A i \in 5..Len(written) :
                    /\ written[i].key = <<root, protocol \o L_command>>
                    /\ written[i].status = ERROR_SUCCESS
              /\ { <<written[i].valueName, written[i].data>> : i \in 5..Len(written) } = extras
              /\ { <<root, protocol>>, <<root, protocol \o L_DefaultIcon>>,
                   <<root, protocol \o L_command>> } \subseteq DOMAIN d_store

\* The store after the successful calls of a list of store calls
RECURSIVE Replay(_, _)
Replay(store, calls) ==
    IF calls = <<>> THEN store
    ELSE LET c == Head(calls)
             next == IF c.status # ERROR_SUCCESS THEN store
                     ELSE IF IsCreate(c) THEN Created(store, c.key[1], c.key[2])
                     ELSE IF IsSetValue(c)
                     THEN Stored(store, c.key, c.valueName,
                                 [ present |-> TRUE, type |-> REG_SZ,
                                   data |-> BytesOfUnits(c.data \o <<NUL>>) ])
                     ELSE store
         IN  Replay(next, Tail(calls))

\* C24: when a store call of dplnk fails, dplnk throws the status of that
\* call, no key is created and no value written after it, the store holds
\* what the calls before it created and wrote, and every handle dplnk got
\* has been released once when dplnk has ended, by return or by exception;
\* in a build without _WIN32 dplnk throws and calls no store function.
C24_FailurePropagates ==
    d_pc = "done" =>
        IF d_build = "not _WIN32"
        THEN /\ d_result.thrown /\ d_result.status = "std::runtime_error"
             /\ d_calls = <<>> /\ d_store = d_before /\ d_isOpen = {}
        ELSE /\ d_result.thrown <=> \E i \in 1..Len(d_calls) : d_calls[i].status # ERROR_SUCCESS
             /\ \A i \in 1..Len(d_calls) :
                   d_calls[i].status # ERROR_SUCCESS =>
                       /\ d_result.status = d_calls[i].status
                       /\ \A j \in 1..Len(d_calls) :
                             /\ j < i => ~IsClose(d_calls[j])
                             /\ j > i => IsClose(d_calls[j])
             /\ d_store = Replay(d_before, d_calls)
             /\ d_isOpen = {}
             /\ \A i \in 1..Len(d_calls) :
                   (IsCreate(d_calls[i]) /\ d_calls[i].status = ERROR_SUCCESS) =>
                       Cardinality({ j \in 1..Len(d_calls) :
                                       IsClose(d_calls[j]) /\ d_calls[j].h = d_calls[i].h
                                       /\ j > i }) = 1

\* dplnk threw when the write of an entry of options.d was refused, after
\* it had created three keys and written four values: these are in the
\* store and the three handles have been released.
C24_Witness ==
    /\ Ended
    /\ d_result.thrown
    /\ d_before = NoStore
    /\ Len(SelectSeq(d_calls, IsCreate)) = 3
    /\ Len(SelectSeq(d_calls, IsSetValue)) = 5
    /\ Len(SelectSeq(d_calls, IsClose)) = 3
    /\ d_isOpen = {}
    /\ ValueOf(d_store, <<HKEY_CLASSES_ROOT, wstring(d_call.options.protocol) \o L_DefaultIcon>>,
               <<>>).data = BytesOfUnits(L_url_dll \o <<NUL>>)

\* C30: after a dplnk that returned, the default value of the
\* shell\open\command key it created is the command line made of the path,
\* whatever options.d holds.
C30_CommandLineKept ==
    (Ended /\ ~d_result.thrown) =>
        LET created == SelectSeq(d_calls, IsCreate)
            cmdkey == created[Len(created)].key
            line == L_quote \o wstring(d_call.path) \o L_quote_percent_1
        IN  ValueOf(d_store, cmdkey, <<>>)
                = [ present |-> TRUE, type |-> REG_SZ,
                    data |-> BytesOfUnits(line \o <<NUL>>) ]

=============================================================================
